---- MODULE Spec2Model ----
(***************************************************************************)
(* serde-roundtrip: the RoundTrip / SameDeserialization relation library   *)
(* (src/src/lib.rs), the derive generator                                  *)
(* (src/serde-roundtrip-derive/lib.rs) and the JSON round trip the tests   *)
(* compare it with (src/tests/lib.rs).                                     *)
(*                                                                         *)
(* Types are tuples <<head, args...>>, values are tuples <<tag, payload>>, *)
(* JSON documents are tuples <<"null">>, <<"bool", b>>, <<"number", n>>,   *)
(* <<"string", s>>, <<"array", seq>>, <<"object", seq of <<key, json>>>>.  *)
(***************************************************************************)
EXTENDS Integers, Sequences, FiniteSets, TLC

VARIABLES
    mode,            \* which part of the repository this behaviour exercises
    pc,              \* position inside that part
    S,               \* the source type of `source`
    T,               \* the target type asked of round_trip / from_str
    source,          \* tests/lib.rs: let source = ...
    via_round_trip,  \* tests/lib.rs: source.round_trip()
    json,            \* tests/lib.rs: to_string(&source)
    via_json,        \* tests/lib.rs: from_str(json)
    pending,         \* array_impls!: the arguments of the invocation to expand
    impls,           \* array_impls!: the impls emitted so far
    hashers,         \* HashMap / HashSet: what H::default() gave round_trip and from_str
    ast,             \* derive: the syn::MacroInput
    gen,             \* derive: the quote::Tokens impl_round_trip returns
    calls            \* derive: the derive inputs expanded so far in this compilation, with their output

vars == <<mode, pc, S, T, source, via_round_trip, json, via_json,
          pending, impls, hashers, ast, gen, calls>>

None == <<"-">>

(***************************************************************************)
(* Bounds of the model.                                                    *)
(***************************************************************************)
MaxSrcDepth == 3
MaxTgtDepth == 3
MaxNest == 2
MaxSeqLen == 2
MaxFields == 2
MaxVariants == 3
MaxParams == 2
MaxCalls == 3

(***************************************************************************)
(* Sequence helpers.                                                       *)
(***************************************************************************)
Range(s) == { s[i] : i \in DOMAIN s }

Map(s, Op(_)) == [ i \in DOMAIN s |-> Op(s[i]) ]

SeqsUpTo(X, n) == UNION { [1..k -> X] : k \in 0..n }

(***************************************************************************)
(* The type universe.                                                      *)
(***************************************************************************)
\* roundtrip_via_clone!(...) invocations
ViaClone ==
    { "()", "ByteBuf", "CString", "Duration", "IpAddr", "Ipv4Addr", "Ipv6Addr",
      "PathBuf", "SocketAddr", "SocketAddrV4", "SocketAddrV6", "String", "bool",
      "char", "f32", "f64", "i16", "i32", "i64", "i8", "isize", "u16", "u32",
      "u64", "u8", "usize" }

\* roundtrip_via_to_owned!(...) invocations
ViaToOwned == { "CStr", "Path", "str" }

\* roundtrip_via_deref!(...) invocations
Indirections == { "Arc", "Box", "Rc" }

\* Types whose SameDeserialization impl is `type SameAs = Self; from(data) = data`
SameAsSelf ==
    { "Vec", "Tuple", "PhantomData", "Option", "Result", "BinaryHeap",
      "BTreeMap", "BTreeSet", "HashMap", "HashSet", "LinkedList", "VecDeque" }

\* Key types of the user with a hand-written `SameDeserialization<SameAs = String>`:
\* Folded's `from` folds the case of the text, Reversed orders keys backwards
UserKeys == { "Folded", "Reversed" }

Collections == { "BTreeMap", "BTreeSet", "HashMap", "HashSet" }

\* <T as ToOwned>::Owned
Owned(t) ==
    CASE t = <<"str">>  -> <<"String">>
      [] t = <<"CStr">> -> <<"CString">>
      [] t = <<"Path">> -> <<"PathBuf">>
      [] OTHER          -> t

(***************************************************************************)
(* SameDeserialization: SameAs and from.                                   *)
(***************************************************************************)
\* a `from` that returned a fresh value instead of its argument
FromViaClone_Default(data) == <<"()", 0>>

\* roundtrip_via_clone!: `fn from(data: $t) -> $t { data }`
FromViaClone(data) == data

\* `type SameAs = Self; fn from(data: Self) -> Self { data }` of Vec, tuples,
\* PhantomData, Option, Result and the collections
FromSelf(data) == data

\* a `from` of F<T> that left the wrapper out
New_Forgotten(F, x) == x

\* roundtrip_via_deref!: `$F::new(...)`
New(F, x) == <<F, x>>

\* roundtrip_via_deref!: `type SameAs = T::SameAs`
SameAsViaDeref(F, inner) == inner

\* the user's `from` for a key type: deserializing at the type is deserializing
\* at SameAs and then calling `from`
UserFrom(t, data) ==
    <<t[1], IF t[1] = "Folded" /\ data[2] = "A" THEN "a" ELSE data[2]>>

\* Cow: `Cow::Owned(...)`
CowOwned(x) == <<"Cow::Owned", x>>

RECURSIVE SameAs(_)
SameAs(t) ==
    CASE t[1] \in ViaClone     -> t
      [] t[1] \in Indirections -> SameAsViaDeref(t[1], SameAs(t[2]))
      [] t[1] = "Cow"          -> SameAs(Owned(t[2]))
      [] t[1] \in SameAsSelf   -> t
      [] t[1] \in UserKeys     -> <<"String">>

RECURSIVE From(_, _)
From(t, data) ==
    CASE t[1] \in ViaClone     -> FromViaClone(data)
      [] t[1] \in Indirections -> New(t[1], From(t[2], data))
      [] t[1] = "Cow"          -> CowOwned(From(Owned(t[2]), data))
      [] t[1] \in SameAsSelf   -> FromSelf(data)
      [] t[1] \in UserKeys     -> UserFrom(t, data)

(***************************************************************************)
(* RoundTrip: the library instances.                                       *)
(***************************************************************************)
\* self.clone()
Clone(self) == self

\* self.to_owned() of str, CStr, Path
ToOwned(self) == <<Owned(<<self[1]>>)[1], self[2]>>

\* self.deref() / **self of Box, Rc, Arc, &, &mut and Cow
Deref(self) ==
    IF self[1] = "Cow::Owned" THEN <<"str", self[2][2]>> ELSE self[2]

\* a round_trip of F<S> that boxed what the pointee returned
FromReflexive_Rewrap(x) == <<"Box", x>>

\* roundtrip_via_deref!: `T::from(x)` with only `T: Deserialize` in scope is
\* std's reflexive `impl<T> From<T> for T`
FromReflexive(x) == x

\* Option: self.as_ref().map(RoundTrip::round_trip); `some` is the payload's
\* round_trip
OptionMap(self, some) ==
    IF self[1] = "Some" THEN <<"Some", some>> ELSE <<"None">>

\* a Result instance that exchanged the arms
ResultMap_Swapped(self, ok, err) ==
    IF self[1] = "Ok" THEN <<"Err", ok>> ELSE <<"Ok", err>>

\* Result: self.as_ref().map(RoundTrip::round_trip).map_err(RoundTrip::round_trip);
\* `ok` is the payload under S0 -> T0, `err` the payload under S1 -> T1
ResultMap(self, ok, err) ==
    IF self[1] = "Ok" THEN <<"Ok", ok>> ELSE <<"Err", err>>

\* self.iter().map(RoundTrip::round_trip).collect() into a Vec; `items` are the
\* elements' round_trips in iteration order
CollectVec(items) == <<"Vec", items>>

(***************************************************************************)
(* Tuples: the hand-written instance for (S0,) and the tuple_impls!        *)
(* invocations for arities 2 to 16.                                        *)
(***************************************************************************)
\* impl<S0, T0, T> RoundTrip<T> for (S0,): T::from((self.0.round_trip(),))
tuple_impl_1 ==
    [ for     |-> <<"S0">>,
      bounds  |-> << <<"S0", "T0">> >>,
      same_as |-> <<"T0">>,
      pattern |-> <<"self.0">>,
      result  |-> <<"self.0">> ]

\* the `x: S => T` arguments of each tuple_impls!(...) invocation
tuple_impls_invocations ==
  <<
    <<
        <<"x_0", "S0", "T0">>, <<"x_1", "S1", "T1">>
    >>,
    <<
        <<"x_0", "S0", "T0">>, <<"x_1", "S1", "T1">>, <<"x_2", "S2", "T2">>
    >>,
    <<
        <<"x_0", "S0", "T0">>, <<"x_1", "S1", "T1">>, <<"x_2", "S2", "T2">>,
        <<"x_3", "S3", "T3">>
    >>,
    <<
        <<"x_0", "S0", "T0">>, <<"x_1", "S1", "T1">>, <<"x_2", "S2", "T2">>,
        <<"x_3", "S3", "T3">>, <<"x_4", "S4", "T4">>
    >>,
    <<
        <<"x_0", "S0", "T0">>, <<"x_1", "S1", "T1">>, <<"x_2", "S2", "T2">>,
        <<"x_3", "S3", "T3">>, <<"x_4", "S4", "T4">>, <<"x_5", "S5", "T5">>
    >>,
    <<
        <<"x_0", "S0", "T0">>, <<"x_1", "S1", "T1">>, <<"x_2", "S2", "T2">>,
        <<"x_3", "S3", "T3">>, <<"x_4", "S4", "T4">>, <<"x_5", "S5", "T5">>,
        <<"x_6", "S6", "T6">>
    >>,
    <<
        <<"x_0", "S0", "T0">>, <<"x_1", "S1", "T1">>, <<"x_2", "S2", "T2">>,
        <<"x_3", "S3", "T3">>, <<"x_4", "S4", "T4">>, <<"x_5", "S5", "T5">>,
        <<"x_6", "S6", "T6">>, <<"x_7", "S7", "T7">>
    >>,
    <<
        <<"x_0", "S0", "T0">>, <<"x_1", "S1", "T1">>, <<"x_2", "S2", "T2">>,
        <<"x_3", "S3", "T3">>, <<"x_4", "S4", "T4">>, <<"x_5", "S5", "T5">>,
        <<"x_6", "S6", "T6">>, <<"x_7", "S7", "T7">>, <<"x_8", "S8", "T8">>
    >>,
    <<
        <<"x_0", "S0", "T0">>, <<"x_1", "S1", "T1">>, <<"x_2", "S2", "T2">>,
        <<"x_3", "S3", "T3">>, <<"x_4", "S4", "T4">>, <<"x_5", "S5", "T5">>,
        <<"x_6", "S6", "T6">>, <<"x_7", "S7", "T7">>, <<"x_8", "S8", "T8">>,
        <<"x_9", "S9", "T9">>
    >>,
    <<
        <<"x_0", "S0", "T0">>, <<"x_1", "S1", "T1">>, <<"x_2", "S2", "T2">>,
        <<"x_3", "S3", "T3">>, <<"x_4", "S4", "T4">>, <<"x_5", "S5", "T5">>,
        <<"x_6", "S6", "T6">>, <<"x_7", "S7", "T7">>, <<"x_8", "S8", "T8">>,
        <<"x_9", "S9", "T9">>, <<"x_a", "SA", "TA">>
    >>,
    <<
        <<"x_0", "S0", "T0">>, <<"x_1", "S1", "T1">>, <<"x_2", "S2", "T2">>,
        <<"x_3", "S3", "T3">>, <<"x_4", "S4", "T4">>, <<"x_5", "S5", "T5">>,
        <<"x_6", "S6", "T6">>, <<"x_7", "S7", "T7">>, <<"x_8", "S8", "T8">>,
        <<"x_9", "S9", "T9">>, <<"x_a", "SA", "TA">>, <<"x_b", "SB", "TB">>
    >>,
    <<
        <<"x_0", "S0", "T0">>, <<"x_1", "S1", "T1">>, <<"x_2", "S2", "T2">>,
        <<"x_3", "S3", "T3">>, <<"x_4", "S4", "T4">>, <<"x_5", "S5", "T5">>,
        <<"x_6", "S6", "T6">>, <<"x_7", "S7", "T7">>, <<"x_8", "S8", "T8">>,
        <<"x_9", "S9", "T9">>, <<"x_a", "SA", "TA">>, <<"x_b", "SB", "TB">>,
        <<"x_c", "SC", "TC">>
    >>,
    <<
        <<"x_0", "S0", "T0">>, <<"x_1", "S1", "T1">>, <<"x_2", "S2", "T2">>,
        <<"x_3", "S3", "T3">>, <<"x_4", "S4", "T4">>, <<"x_5", "S5", "T5">>,
        <<"x_6", "S6", "T6">>, <<"x_7", "S7", "T7">>, <<"x_8", "S8", "T8">>,
        <<"x_9", "S9", "T9">>, <<"x_a", "SA", "TA">>, <<"x_b", "SB", "TB">>,
        <<"x_c", "SC", "TC">>, <<"x_d", "SD", "TD">>
    >>,
    <<
        <<"x_0", "S0", "T0">>, <<"x_1", "S1", "T1">>, <<"x_2", "S2", "T2">>,
        <<"x_3", "S3", "T3">>, <<"x_4", "S4", "T4">>, <<"x_5", "S5", "T5">>,
        <<"x_6", "S6", "T6">>, <<"x_7", "S7", "T7">>, <<"x_8", "S8", "T8">>,
        <<"x_9", "S9", "T9">>, <<"x_a", "SA", "TA">>, <<"x_b", "SB", "TB">>,
        <<"x_c", "SC", "TC">>, <<"x_d", "SD", "TD">>, <<"x_e", "SE", "TE">>
    >>,
    <<
        <<"x_0", "S0", "T0">>, <<"x_1", "S1", "T1">>, <<"x_2", "S2", "T2">>,
        <<"x_3", "S3", "T3">>, <<"x_4", "S4", "T4">>, <<"x_5", "S5", "T5">>,
        <<"x_6", "S6", "T6">>, <<"x_7", "S7", "T7">>, <<"x_8", "S8", "T8">>,
        <<"x_9", "S9", "T9">>, <<"x_a", "SA", "TA">>, <<"x_b", "SB", "TB">>,
        <<"x_c", "SC", "TC">>, <<"x_d", "SD", "TD">>, <<"x_e", "SE", "TE">>,
        <<"x_f", "SF", "TF">>
    >>
  >>

\* macro_rules! tuple_impls: the impl one invocation expands to
tuple_impls(args) ==
    [ for     |-> [ i \in DOMAIN args |-> args[i][2] ],
      bounds  |-> [ i \in DOMAIN args |-> <<args[i][2], args[i][3]>> ],
      same_as |-> [ i \in DOMAIN args |-> args[i][3] ],
      pattern |-> [ i \in DOMAIN args |-> args[i][1] ],
      result  |-> [ i \in DOMAIN args |-> args[i][1] ] ]

TupleImpls ==
    <<tuple_impl_1>>
    \o [ i \in DOMAIN tuple_impls_invocations |-> tuple_impls(tuple_impls_invocations[i]) ]

\* instance resolution: the impl whose Self type has n components
TupleImplFor(n) ==
    TupleImpls[CHOOSE i \in DOMAIN TupleImpls : Len(TupleImpls[i].for) = n]

\* a pattern that bound the components back to front
Binding_Reversed(impl, j) ==
    Len(impl.pattern) + 1 - (CHOOSE p \in DOMAIN impl.pattern : impl.pattern[p] = impl.result[j])

\* `let ($(ref $xs),*) = *self;`: the component that the j-th expression of
\* the result, `$xs.round_trip()`, reads
Binding(impl, j) ==
    CHOOSE p \in DOMAIN impl.pattern : impl.pattern[p] = impl.result[j]

(***************************************************************************)
(* Ordered and hash-keyed collections. A collection value is the sequence  *)
(* of its entries in iteration order: <<key, value>> for a map, <<key>>    *)
(* for a set.                                                              *)
(***************************************************************************)
\* the text of a key, under whatever owns or borrows it
KeyText(k) ==
    IF k[1] \in {"&", "Cow::Borrowed", "Cow::Owned"} THEN k[2][2] ELSE k[2]

\* str's Ord, byte-wise
StrOrd(text) == CASE text = "A" -> 1 [] text = "a" -> 2 [] text = "b" -> 3

\* where a key stands in the iteration order `ord` of a collection: 0 is the
\* key type's Ord (a BTreeMap / BTreeSet), a hasher h > 0 orders by its hashes
Place(ord, k) ==
    IF ord = 0
    THEN IF k[1] = "Reversed" THEN 0 - StrOrd(KeyText(k)) ELSE StrOrd(KeyText(k))
    ELSE (StrOrd(KeyText(k)) * ord) % 5

\* an insert that kept the old value of an equal key
Insert_KeepFirst(ord, entries, e) ==
    IF \E i \in DOMAIN entries : Place(ord, entries[i][1]) = Place(ord, e[1])
    THEN entries
    ELSE LET n == Cardinality({ i \in DOMAIN entries :
                                  Place(ord, entries[i][1]) < Place(ord, e[1]) })
         IN  SubSeq(entries, 1, n) \o <<e>> \o SubSeq(entries, n + 1, Len(entries))

\* insert(key, value) / insert(key): an equal key keeps its place and its key
\* and, in a map, takes the new value; a new key goes to its place
Insert(ord, entries, e) ==
    IF \E i \in DOMAIN entries : Place(ord, entries[i][1]) = Place(ord, e[1])
    THEN [ i \in DOMAIN entries |->
             IF Place(ord, entries[i][1]) = Place(ord, e[1])
             THEN <<entries[i][1]>> \o Tail(e) ELSE entries[i] ]
    ELSE LET n == Cardinality({ i \in DOMAIN entries :
                                  Place(ord, entries[i][1]) < Place(ord, e[1]) })
         IN  SubSeq(entries, 1, n) \o <<e>> \o SubSeq(entries, n + 1, Len(entries))

\* FromIterator / Extend: insert the items, in the order the iterator yields them
RECURSIVE Extend(_, _, _)
Extend(ord, entries, items) ==
    IF items = <<>> THEN entries
    ELSE Extend(ord, Insert(ord, entries, Head(items)), Tail(items))

\* .collect() into a BTreeMap, BTreeSet, HashMap or HashSet
Collect(kind, hasher, items) ==
    <<kind, Extend(IF kind \in {"BTreeMap", "BTreeSet"} THEN 0 ELSE hasher, <<>>, items)>>

RECURSIVE RoundTrip(_, _, _)
RoundTrip(s, t, self) ==
    CASE s[1] \in ViaClone     -> From(t, Clone(self))
      [] s[1] \in ViaToOwned   -> From(t, ToOwned(self))
      [] s[1] \in Indirections -> FromReflexive(RoundTrip(s[2], t, Deref(self)))
      [] s[1] \in {"&", "&mut", "Cow"} -> RoundTrip(s[2], t, Deref(self))
      [] s[1] = "Option" ->
            From(t, OptionMap(self,
                IF self[1] = "Some"
                THEN RoundTrip(s[2], SameAs(t)[2], self[2]) ELSE None))
      [] s[1] = "Result" ->
            From(t, ResultMap(self,
                IF self[1] = "Ok"
                THEN RoundTrip(s[2], SameAs(t)[2], self[2]) ELSE None,
                IF self[1] = "Err"
                THEN RoundTrip(s[3], SameAs(t)[3], self[2]) ELSE None))
      [] s[1] \in {"Vec", "[]"} ->
            From(t, CollectVec(
                [ i \in DOMAIN self[2] |->
                    RoundTrip(s[2], SameAs(t)[2], self[2][i]) ]))
      [] s[1] \in {"BTreeMap", "HashMap"} ->
            From(t, Collect(s[1], hashers[1],
                [ i \in DOMAIN self[2] |->
                    << RoundTrip(s[2], SameAs(t)[2], self[2][i][1]),
                       RoundTrip(s[3], SameAs(t)[3], self[2][i][2]) >> ]))
      [] s[1] \in {"BTreeSet", "HashSet"} ->
            From(t, Collect(s[1], hashers[1],
                [ i \in DOMAIN self[2] |->
                    << RoundTrip(s[2], SameAs(t)[2], self[2][i][1]) >> ]))
      [] s[1] = "Tuple" ->
            LET impl == TupleImplFor(Len(s[2]))
            IN  From(t, <<"Tuple",
                    [ j \in DOMAIN impl.result |->
                        RoundTrip(s[2][Binding(impl, j)], SameAs(t)[2][j],
                                  self[2][Binding(impl, j)]) ]>>)

(***************************************************************************)
(* The codec of the tests: serde_json::to_string and serde_json::from_str, *)
(* as serde's Serialize / Deserialize impls of the modelled types drive    *)
(* them.                                                                   *)
(***************************************************************************)
Null == <<"Value::Null">>

Error == <<"Err", <<"Error">>>>

Ok(x) == <<"Ok", x>>

\* serde_json writes a map key through its key serializer: strings only
MapKey(j) == j[2]

RECURSIVE to_string(_)
to_string(self) ==
    CASE self[1] = "bool" -> <<"Value::Bool", self[2]>>
      [] self[1] = "u8"   -> <<"Value::Number", self[2]>>
      [] self[1] = "()"   -> Null
      [] self[1] \in {"String", "str"} -> <<"Value::String", self[2]>>
      [] self[1] \in Indirections \cup {"&", "&mut", "Cow::Borrowed", "Cow::Owned"}
            -> to_string(self[2])
      [] self[1] = "None" -> Null
      [] self[1] = "Some" -> to_string(self[2])
      [] self[1] \in {"Ok", "Err"} ->
            <<"Value::Object", << <<self[1], to_string(self[2])>> >> >>
      [] self[1] \in {"Vec", "[]", "Tuple"} ->
            <<"Value::Array", [ i \in DOMAIN self[2] |-> to_string(self[2][i]) ]>>
      [] self[1] \in {"BTreeSet", "HashSet"} ->
            <<"Value::Array", [ i \in DOMAIN self[2] |-> to_string(self[2][i][1]) ]>>
      [] self[1] \in {"BTreeMap", "HashMap"} ->
            <<"Value::Object",
              [ i \in DOMAIN self[2] |->
                  <<MapKey(to_string(self[2][i][1])), to_string(self[2][i][2])>> ]>>

\* a sequence of deserialization results as the result of the sequence
Sequenced(tag, rs) ==
    IF \E i \in DOMAIN rs : rs[i][1] = "Err"
    THEN Error
    ELSE Ok(<<tag, [ i \in DOMAIN rs |-> rs[i][2] ]>>)

\* the visitor of a map or a set: insert each decoded entry, in document order
Visited(kind, hasher, rs) ==
    IF \E i \in DOMAIN rs : \E n \in DOMAIN rs[i] : rs[i][n][1] = "Err"
    THEN Error
    ELSE Ok(Collect(kind, hasher,
                [ i \in DOMAIN rs |-> [ n \in DOMAIN rs[i] |-> rs[i][n][2] ] ]))

\* Result::map
AndThen(r, tag) == IF r[1] = "Err" THEN Error ELSE Ok(<<tag, r[2]>>)

RECURSIVE from_str(_, _)
from_str(t, j) ==
    CASE t[1] = "bool" ->
            IF j[1] = "Value::Bool" THEN Ok(<<"bool", j[2]>>) ELSE Error
      [] t[1] = "u8" ->
            IF j[1] = "Value::Number" THEN Ok(<<"u8", j[2]>>) ELSE Error
      [] t[1] = "()" ->
            IF j = Null THEN Ok(<<"()", 0>>) ELSE Error
      [] t[1] = "String" ->
            IF j[1] = "Value::String" THEN Ok(<<"String", j[2]>>) ELSE Error
      [] t[1] \in Indirections -> AndThen(from_str(t[2], j), t[1])
      [] t[1] = "Cow" -> AndThen(from_str(Owned(t[2]), j), "Cow::Owned")
      [] t[1] = "Option" ->
            IF j = Null THEN Ok(<<"None">>) ELSE AndThen(from_str(t[2], j), "Some")
      [] t[1] = "Result" ->
            IF j[1] = "Value::Object" /\ Len(j[2]) = 1
            THEN CASE j[2][1][1] = "Ok"  -> AndThen(from_str(t[2], j[2][1][2]), "Ok")
                   [] j[2][1][1] = "Err" -> AndThen(from_str(t[3], j[2][1][2]), "Err")
                   [] OTHER -> Error
            ELSE Error
      [] t[1] = "Vec" ->
            IF j[1] = "Value::Array"
            THEN Sequenced("Vec", [ i \in DOMAIN j[2] |-> from_str(t[2], j[2][i]) ])
            ELSE Error
      [] t[1] \in UserKeys ->
            LET r == from_str(SameAs(t), j)
            IN  IF r[1] = "Err" THEN Error ELSE Ok(From(t, r[2]))
      [] t[1] \in {"BTreeMap", "HashMap"} ->
            IF j[1] = "Value::Object"
            THEN Visited(t[1], hashers[2],
                    [ i \in DOMAIN j[2] |->
                        << from_str(t[2], <<"Value::String", j[2][i][1]>>),
                           from_str(t[3], j[2][i][2]) >> ])
            ELSE Error
      [] t[1] \in {"BTreeSet", "HashSet"} ->
            IF j[1] = "Value::Array"
            THEN Visited(t[1], hashers[2],
                    [ i \in DOMAIN j[2] |-> << from_str(t[2], j[2][i]) >> ])
            ELSE Error
      [] t[1] = "Tuple" ->
            IF j[1] = "Value::Array" /\ Len(j[2]) = Len(t[2])
            THEN Sequenced("Tuple", [ i \in DOMAIN j[2] |-> from_str(t[2][i], j[2][i]) ])
            ELSE Error

(***************************************************************************)
(* The inputs: source types, their values and the target types that have   *)
(* an instance for them.                                                   *)
(***************************************************************************)
Scalars == { <<"bool">>, <<"u8">>, <<"()">> }

LeafValues(name) ==
    CASE name = "bool" -> { TRUE, FALSE }
      [] name = "u8"   -> { 0, 255 }
      [] name = "()"   -> { 0 }
      [] name \in {"String", "str"} -> { "a", "b" }

RECURSIVE Product(_)
Product(sets) ==
    IF sets = <<>> THEN { <<>> }
    ELSE { <<x>> \o rest : x \in sets[1], rest \in Product(Tail(sets)) }

RECURSIVE ValuesOf(_)
ValuesOf(t) ==
    CASE t[1] \in {"bool", "u8", "()", "String", "str"} ->
            { <<t[1], p>> : p \in LeafValues(t[1]) }
      [] t[1] \in Indirections \cup {"&"} ->
            { <<t[1], x>> : x \in ValuesOf(t[2]) }
      [] t[1] = "Cow" ->
            { <<"Cow::Borrowed", x>> : x \in ValuesOf(t[2]) }
            \cup { <<"Cow::Owned", x>> : x \in ValuesOf(Owned(t[2])) }
      [] t[1] = "Option" ->
            { <<"None">> } \cup { <<"Some", x>> : x \in ValuesOf(t[2]) }
      [] t[1] = "Result" ->
            { <<"Ok", x>> : x \in ValuesOf(t[2]) }
            \cup { <<"Err", x>> : x \in ValuesOf(t[3]) }
      [] t[1] \in {"Vec", "[]"} ->
            { <<t[1], q>> : q \in SeqsUpTo(ValuesOf(t[2]), MaxSeqLen) }
      [] t[1] = "Tuple" ->
            { <<"Tuple", q>> : q \in Product([ i \in DOMAIN t[2] |-> ValuesOf(t[2][i]) ]) }

\* the target types T for which `s: RoundTrip<T>` resolves
RECURSIVE TargetsOf(_)
TargetsOf(s) ==
    CASE s[1] \in ViaClone ->
            { s, <<"Box", s>> }
            \cup (IF s = <<"String">> THEN { <<"Cow", <<"str">>>> } ELSE {})
      [] s[1] \in ViaToOwned -> TargetsOf(Owned(s))
      [] s[1] \in Indirections \cup {"&", "Cow"} -> TargetsOf(s[2])
      [] s[1] = "Option" -> { <<"Option", t0>> : t0 \in TargetsOf(s[2]) }
      [] s[1] = "Result" ->
            { <<"Result", t0, t1>> : t0 \in TargetsOf(s[2]), t1 \in TargetsOf(s[3]) }
      [] s[1] \in {"Vec", "[]"} -> { <<"Vec", t0>> : t0 \in TargetsOf(s[2]) }
      [] s[1] = "Tuple" ->
            { <<"Tuple", q>> : q \in Product([ i \in DOMAIN s[2] |-> TargetsOf(s[2][i]) ]) }

RECURSIVE Wrap(_, _)
Wrap(stack, t) ==
    IF stack = <<>> THEN t ELSE <<Head(stack), Wrap(Tail(stack), t)>>

\* a scalar under a stack of Box / Rc / Arc, on either side
Stacked ==
    { <<Wrap(ss, x), Wrap(ts, x)>> :
        ss \in SeqsUpTo(Indirections, MaxSrcDepth),
        ts \in SeqsUpTo(Indirections, MaxTgtDepth),
        x \in Scalars }

Leaves == { <<"bool">>, <<"()">>, <<"String">>, <<"&", <<"str">>>>, <<"Cow", <<"str">>>> }

RECURSIVE Nest(_)
Nest(d) ==
    IF d = 0 THEN Leaves
    ELSE Nest(d - 1) \cup { <<c, x>> : c \in {"Option", "Box", "&"}, x \in Nest(d - 1) }

Compound ==
    { <<c, x>> : c \in {"Vec"}, x \in Leaves \cup { <<"Option", <<"bool">>>> } }
    \cup { <<"&", <<"[]", x>>>> : x \in Leaves }
    \cup { <<"Result", x, y>> : x, y \in { <<"bool">>, <<"&", <<"str">>>> } }
    \cup { <<"Tuple", <<x>>>> : x \in Leaves }
    \cup { <<"Tuple", <<x, y>>>> : x, y \in { <<"bool">>, <<"&", <<"str">>>> } }

\* tuples of every arity with an instance: u8 components that differ by
\* position, boxed or not on the target side
TupleInputs ==
    { << <<"Tuple", [ i \in 1..n |-> <<"u8">> ]>>,
         <<"Tuple", [ i \in 1..n |->
                        IF (i + q) % 3 = 0 THEN <<"Box", <<"u8">>>> ELSE <<"u8">> ]>>,
         <<"Tuple", [ i \in 1..n |-> <<"u8", i + k>> ]>> >> :
        n \in { Len(TupleImpls[i].for) : i \in DOMAIN TupleImpls },
        q \in 0..2, k \in {0, 100} }

\* maps and sets keyed by &str: a BTreeMap / BTreeSet iterates in key order, a
\* HashMap / HashSet in any order; the target keys are String, Cow<str> or a
\* key type of the user
Keys == { "A", "a", "b" }

Hashers == { 1, 2 }

DistinctKeys == { q \in SeqsUpTo(Keys, Cardinality(Keys)) :
                    \A i, j \in DOMAIN q : i # j => q[i] # q[j] }

Sorted(q) == \A i, j \in DOMAIN q : i < j => StrOrd(q[i]) < StrOrd(q[j])

KeyTargets == { <<"String">>, <<"Cow", <<"str">>>>, <<"Folded">>, <<"Reversed">> }

CollectionInputs ==
    UNION { UNION { UNION {
        { << <<kind, <<"&", <<"str">>>>, <<"bool">>>>,
             <<kind, tk, <<"Box", <<"bool">>>>>>,
             <<kind, [ i \in DOMAIN q |->
                        << <<"&", <<"str", q[i]>>>>, <<"bool", bs[i]>> >> ]>> >> :
            bs \in [ DOMAIN q -> BOOLEAN ] }
        \cup
        { << <<IF kind = "BTreeMap" THEN "BTreeSet" ELSE "HashSet", <<"&", <<"str">>>>>>,
             <<IF kind = "BTreeMap" THEN "BTreeSet" ELSE "HashSet", tk>>,
             <<IF kind = "BTreeMap" THEN "BTreeSet" ELSE "HashSet",
               [ i \in DOMAIN q |-> << <<"&", <<"str", q[i]>>>> >> ]>> >> }
        : q \in { q \in DistinctKeys : kind = "HashMap" \/ Sorted(q) } }
        : tk \in KeyTargets }
        : kind \in { "BTreeMap", "HashMap" } }

Nested ==
    UNION { { <<s, t>> : t \in UNION { {t0, <<"Rc", t0>>} : t0 \in TargetsOf(s) } } :
            s \in Nest(MaxNest) \cup Compound }

(***************************************************************************)
(* The library round trip: tests/lib.rs compares source.round_trip() with  *)
(* from_str(to_string(&source)).                                           *)
(***************************************************************************)
InitLib ==
    /\ mode = "lib"
    /\ pc = "start"
    /\ \/ \E st \in Stacked \cup Nested :
             /\ S = st[1]
             /\ T = st[2]
             /\ source \in ValuesOf(st[1])
       \/ \E st \in TupleInputs \cup CollectionInputs :
             /\ S = st[1]
             /\ T = st[2]
             /\ source = st[3]
    /\ hashers \in IF S[1] \in {"HashMap", "HashSet"}
                    THEN Hashers \X Hashers ELSE { <<1, 1>> }
    /\ via_round_trip = None
    /\ json = None
    /\ via_json = None
    /\ pending = None
    /\ impls = None
    /\ ast = None
    /\ gen = None
    /\ calls = None

\* let via_round_trip: Target = source.round_trip();
RoundTripStep ==
    /\ mode = "lib"
    /\ pc = "start"
    /\ via_round_trip' = RoundTrip(S, T, source)
    /\ pc' = "tripped"
    /\ UNCHANGED <<mode, S, T, source, json, via_json, pending, impls, hashers, ast, gen, calls>>

\* to_string(&source)
ToStringStep ==
    /\ mode = "lib"
    /\ pc = "tripped"
    /\ json' = to_string(source)
    /\ pc' = "serialized"
    /\ UNCHANGED <<mode, S, T, source, via_round_trip, via_json, pending, impls, hashers, ast, gen, calls>>

\* let via_json: Target = from_str(...)
FromStrStep ==
    /\ mode = "lib"
    /\ pc = "serialized"
    /\ via_json' = from_str(T, json)
    /\ pc' = "done"
    /\ UNCHANGED <<mode, S, T, source, via_round_trip, json, pending, impls, hashers, ast, gen, calls>>

(***************************************************************************)
(* Fixed-size arrays: the recursive macro array_impls! and the instances   *)
(* it emits.                                                               *)
(***************************************************************************)
\* array_impls!(32, 31, ..., 0);
array_impls_invocation ==
    << 32, 31, 30, 29, 28, 27, 26, 25, 24, 23, 22, 21, 20, 19, 18, 17, 16,
       15, 14, 13, 12, 11, 10, 9, 8, 7, 6, 5, 4, 3, 2, 1, 0 >>

\* ($zero:expr) => impl ... for [S; $zero] { Ts::from([]) }
ZeroArm(zero) == [ len |-> zero, indices |-> <<>> ]

\* ($len:expr, $($indices:expr),*) =>
\*     impl ... for [S; $len] { Ts::from([ $(self[$len-($indices+1)].round_trip()),* ]) }
LenArm(len, indices) == [ len |-> len, indices |-> indices ]

\* an index without the +1
Index_OffByOne(len, index) == len - index

\* $len-($indices+1), in usize
Index(len, index) == len - (index + 1)

\* self[k] of a fixed-size array: in bounds, or a panic
Elem(self, k) ==
    IF k \in 0..(Len(self[2]) - 1) THEN self[2][k + 1] ELSE <<"panic">>

\* the user's target type Ts: SameDeserialization<SameAs = [T; n]>; the
\* library has no SameDeserialization instance for arrays
TsFrom(data) == <<"Ts::from", data>>

\* round_trip of the instance `impl`, to the element type t0
ArrayRoundTrip(impl, s0, t0, self) ==
    TsFrom(<<"Array",
        [ j \in DOMAIN impl.indices |->
            LET x == Elem(self, Index(impl.len, impl.indices[j]))
            IN  IF x = <<"panic">> THEN x ELSE RoundTrip(s0, t0, x) ]>>)

InitArray ==
    /\ mode = "array"
    /\ pc = "expanding"
    /\ pending = array_impls_invocation
    /\ impls = <<>>
    /\ hashers = None
    /\ S = None
    /\ T = None
    /\ source = None
    /\ via_round_trip = None
    /\ json = None
    /\ via_json = None
    /\ ast = None
    /\ gen = None
    /\ calls = None

\* one expansion of array_impls!: the first arm takes a single argument, the
\* second a length and at least one index, and expands the indices again
ExpandArrayImpls ==
    /\ mode = "array"
    /\ pc = "expanding"
    /\ IF Len(pending) = 1
       THEN /\ impls' = Append(impls, ZeroArm(pending[1]))
            /\ pending' = <<>>
            /\ pc' = "expanded"
       ELSE /\ Len(pending) > 1
            /\ impls' = Append(impls, LenArm(Head(pending), Tail(pending)))
            /\ pending' = Tail(pending)
            /\ pc' = "expanding"
    /\ UNCHANGED <<mode, S, T, source, via_round_trip, json, via_json, hashers, ast, gen, calls>>

\* source.round_trip() on an array, through the instance for its length
ArrayRoundTripStep ==
    /\ mode = "array"
    /\ pc = "expanded"
    /\ \E i \in DOMAIN impls, t0 \in { <<"u8">>, <<"Box", <<"u8">>>> }, k \in {0, 100} :
          /\ S' = <<"Array", impls[i].len, <<"u8">>>>
          /\ T' = <<"Ts", <<"Array", impls[i].len, t0>>>>
          /\ source' = <<"Array", [ j \in 1..impls[i].len |-> <<"u8", j + k>> ]>>
          /\ via_round_trip' = ArrayRoundTrip(impls[i], <<"u8">>, t0, source')
    /\ pc' = "applied"
    /\ UNCHANGED <<mode, json, via_json, pending, impls, hashers, ast, gen, calls>>

(***************************************************************************)
(* syn::Generics and the Folder that renames them. Generics are            *)
(* [lifetimes, ty_params, where_clause]; a LifetimeDef [lifetime, bounds]; *)
(* a TyParam [ident, bounds]; a TyParamBound <<"Trait", path>> or          *)
(* <<"Region", lifetime>>; a Path [global, segments]; a PathSegment        *)
(* [ident, parameters] with angle-bracketed parameters                     *)
(* [lifetimes, types, bindings], a binding <<ident, ty>>; a Ty             *)
(* <<"Path", qself, path>> or <<"Rptr", lifetime, ty>>; a WherePredicate   *)
(* <<"BoundPredicate", bounded_ty, bounds>> or                             *)
(* <<"RegionPredicate", lifetime, bounds>>. A lifetime is its text, "'l".  *)
(***************************************************************************)
NoParameters == [ lifetimes |-> <<>>, types |-> <<>>, bindings |-> <<>> ]

\* PathParameters::is_empty
IsEmpty(parameters) ==
    parameters.lifetimes = <<>> /\ parameters.types = <<>> /\ parameters.bindings = <<>>

\* Path::from(ident)
PathFrom(ident) ==
    [ global |-> FALSE, segments |-> << [ ident |-> ident, parameters |-> NoParameters ] >> ]

\* a position that went on counting from the expansions before this one
position_Carried(names, ident) ==
    LET hits == { i \in DOMAIN names : names[i] = ident }
    IN  IF hits = {} THEN <<"None">>
        ELSE <<"Some", (CHOOSE i \in hits : \A n \in hits : i <= n) - 1 + Len(calls)>>

\* Iterator::position over a fresh iterator: the 0-based index of the first
\* element equal to `ident`
position(names, ident) ==
    LET hits == { i \in DOMAIN names : names[i] = ident }
    IN  IF hits = {} THEN <<"None">>
        ELSE <<"Some", (CHOOSE i \in hits : \A n \in hits : i <= n) - 1>>

\* Renaming::fold_lifetime_ident
fold_lifetime_ident(r, ident) ==
    LET index == position([ i \in DOMAIN r.original.lifetimes |->
                              r.original.lifetimes[i].lifetime ], ident)
    IN  IF index[1] = "Some" THEN r.lifetime_prefix \o ToString(index[2]) ELSE ident

\* Renaming::fold_ty_param_ident
fold_ty_param_ident(r, ident) ==
    LET index == position([ i \in DOMAIN r.original.ty_params |->
                              r.original.ty_params[i].ident ], ident)
    IN  IF index[1] = "Some" THEN r.ty_param_prefix \o ToString(index[2]) ELSE ident

\* a fold_ident that renamed as well: a declared name is then renamed twice
fold_ident_Renaming(r, ident) == fold_ty_param_ident(r, ident)

\* Folder::fold_ident, which Renaming leaves at its default
fold_ident(r, ident) == ident

\* Renaming::fold_lifetime
fold_lifetime(r, lifetime) == fold_lifetime_ident(r, lifetime)

\* syn::fold::noop_fold_lifetime_def
fold_lifetime_def(r, def) ==
    [ lifetime |-> fold_lifetime(r, def.lifetime),
      bounds   |-> [ i \in DOMAIN def.bounds |-> fold_lifetime(r, def.bounds[i]) ] ]

\* a fold_path that renamed the first segment of every path
RenameLone_AnyFirst(r, result) ==
    IF result.segments # <<>>
    THEN [ result EXCEPT !.segments[1].ident =
                             fold_ty_param_ident(r, result.segments[1].ident) ]
    ELSE result

\* the renaming of the first segment's ident that fold_path applies after
\* noop_fold_path
RenameLone(r, result) ==
    IF /\ result.segments # <<>>
       /\ Tail(result.segments) = <<>>
       /\ IsEmpty(result.segments[1].parameters)
    THEN [ result EXCEPT !.segments[1].ident =
                             fold_ty_param_ident(r, result.segments[1].ident) ]
    ELSE result

RECURSIVE fold_ty(_, _), fold_path(_, _), fold_path_segment(_, _)

\* syn::fold::noop_fold_ty
fold_ty(r, ty) ==
    CASE ty[1] = "Path" ->
            <<"Path",
              IF ty[2][1] = "Some" THEN <<"Some", fold_ty(r, ty[2][2])>> ELSE ty[2],
              fold_path(r, ty[3])>>
      [] ty[1] = "Rptr" ->
            <<"Rptr",
              IF ty[2][1] = "Some" THEN <<"Some", fold_lifetime(r, ty[2][2])>> ELSE ty[2],
              fold_ty(r, ty[3])>>

\* syn::fold::noop_fold_path_segment with noop_fold_path_parameters and
\* noop_fold_assoc_type_binding
fold_path_segment(r, segment) ==
    [ ident      |-> fold_ident(r, segment.ident),
      parameters |->
        [ lifetimes |-> [ i \in DOMAIN segment.parameters.lifetimes |->
                            fold_lifetime(r, segment.parameters.lifetimes[i]) ],
          types     |-> [ i \in DOMAIN segment.parameters.types |->
                            fold_ty(r, segment.parameters.types[i]) ],
          bindings  |-> [ i \in DOMAIN segment.parameters.bindings |->
                            <<fold_ident(r, segment.parameters.bindings[i][1]),
                              fold_ty(r, segment.parameters.bindings[i][2])>> ] ] ]

\* Renaming::fold_path: noop_fold_path, then the lone segment's ident
fold_path(r, path) ==
    RenameLone(r, [ global   |-> path.global,
                    segments |-> [ i \in DOMAIN path.segments |->
                                     fold_path_segment(r, path.segments[i]) ] ])

\* syn::fold::noop_fold_ty_param_bound with noop_fold_poly_trait_ref
fold_ty_param_bound(r, bound) ==
    IF bound[1] = "Trait" THEN <<"Trait", fold_path(r, bound[2])>>
    ELSE <<"Region", fold_lifetime(r, bound[2])>>

\* syn::fold::noop_fold_generics
noop_fold_generics(r, generics) ==
    [ lifetimes    |-> [ i \in DOMAIN generics.lifetimes |->
                           fold_lifetime_def(r, generics.lifetimes[i]) ],
      ty_params    |-> [ i \in DOMAIN generics.ty_params |->
                           [ ident  |-> fold_ident(r, generics.ty_params[i].ident),
                             bounds |-> [ j \in DOMAIN generics.ty_params[i].bounds |->
                                            fold_ty_param_bound(r, generics.ty_params[i].bounds[j]) ] ] ],
      where_clause |-> [ i \in DOMAIN generics.where_clause |->
                           LET p == generics.where_clause[i]
                           IN  IF p[1] = "BoundPredicate"
                               THEN <<"BoundPredicate", fold_ty(r, p[2]),
                                      [ j \in DOMAIN p[3] |-> fold_ty_param_bound(r, p[3][j]) ]>>
                               ELSE <<"RegionPredicate", fold_lifetime(r, p[2]),
                                      [ j \in DOMAIN p[3] |-> fold_lifetime(r, p[3][j]) ]>> ] ]

\* Renaming::fold_generics
fold_generics(r, generics) ==
    LET result == noop_fold_generics(r, generics)
    IN  [ result EXCEPT !.ty_params =
            [ i \in DOMAIN result.ty_params |->
                [ result.ty_params[i] EXCEPT !.ident =
                    fold_ty_param_ident(r, result.ty_params[i].ident) ] ] ]

\* generic_path
generic_path(ident, generics) ==
    [ global   |-> FALSE,
      segments |-> << [ ident      |-> ident,
                        parameters |->
                          [ lifetimes |-> [ i \in DOMAIN generics.lifetimes |->
                                              generics.lifetimes[i].lifetime ],
                            types     |-> [ i \in DOMAIN generics.ty_params |->
                                              <<"Path", <<"None">>,
                                                PathFrom(generics.ty_params[i].ident)>> ],
                            bindings  |-> <<>> ] ] >> ]

\* ty_param_bound(text), the text already parsed to a path
ty_param_bound(path) == <<"Trait", path>>

(***************************************************************************)
(* #[derive(RoundTrip)]: impl_round_trip. A syn::MacroInput is             *)
(* [ident, body]; a body is <<"Struct", data>> or <<"Enum", variants>>, a  *)
(* syn::VariantData <<"Struct", fields>>, <<"Tuple", fields>> or           *)
(* <<"Unit">>, a field [ident, ty], a variant [ident, data]. The tokens of *)
(* quote! are kept as terms: <<"struct_lit", path, <<name, expr>>...>>,    *)
(* <<"call", path, exprs>>, <<"path", path>>, <<"round_trip", receiver>>,  *)
(* <<"match", arms>> with arms <<pattern, expr>>.                          *)
(***************************************************************************)
\* field.ident.as_ref() of the fields that have a name
FieldIdents(fields) ==
    LET named == SelectSeq(fields, LAMBDA field : field.ident[1] = "Some")
    IN  [ i \in DOMAIN named |-> named[i].ident[2] ]

\* positions counted from 1
IndexIdents_FromOne(fields) == [ i \in DOMAIN fields |-> ToString(i) ]

\* syn::Ident::from(index) for index in 0..body.len()
IndexIdents(fields) == [ i \in DOMAIN fields |-> ToString(i - 1) ]

\* syn::Ident::from(format!("x{}", index)) for index in 0..body.len()
BinderIdents(fields) == [ i \in DOMAIN fields |-> "x" \o ToString(i - 1) ]

\* quote! { #ident: self.#ident.round_trip() }
StructField(ident) == <<ident, <<"round_trip", <<"self", ident>>>>>>

\* quote! { self.#index.round_trip() }
TupleField(index) == <<"round_trip", <<"self", index>>>>

\* a struct-like arm that filled every field from the binding `c`
ClonedField_Same(ident) == <<ident, <<"round_trip", <<"var", "c">>>>>>

\* quote! { #ident: #ident.round_trip() }
ClonedField(ident) == <<ident, <<"round_trip", <<"var", ident>>>>>>

\* quote! { #ident.round_trip() }
ClonedElem(ident) == <<"round_trip", <<"var", ident>>>>

\* one `case` of the enum: the arm quote! builds for it
Case(name, case) ==
    LET ident == <<name, case.ident>>
    IN  CASE case.data[1] = "Struct" ->
                LET idents == FieldIdents(case.data[2])
                IN  << <<"struct_pat", ident, idents>>,
                       <<"struct_lit", ident,
                         [ i \in DOMAIN idents |-> ClonedField(idents[i]) ]>> >>
          [] case.data[1] = "Tuple" ->
                LET idents == BinderIdents(case.data[2])
                IN  << <<"tuple_pat", ident, idents>>,
                       <<"call", ident,
                         [ i \in DOMAIN idents |-> ClonedElem(idents[i]) ]>> >>
          [] case.data[1] = "Unit" ->
                << <<"path_pat", ident>>, <<"path", ident>> >>

\* let round_trip = match ast.body { ... }
round_trip(a) ==
    LET name == a.ident
    IN  CASE a.body[1] = "Struct" /\ a.body[2][1] = "Struct" ->
                LET fields == FieldIdents(a.body[2][2])
                IN  <<"struct_lit", <<name>>,
                      [ i \in DOMAIN fields |-> StructField(fields[i]) ]>>
          [] a.body[1] = "Struct" /\ a.body[2][1] = "Tuple" ->
                LET fields == IndexIdents(a.body[2][2])
                IN  <<"call", <<name>>,
                      [ i \in DOMAIN fields |-> TupleField(fields[i]) ]>>
          [] a.body[1] = "Struct" /\ a.body[2][1] = "Unit" ->
                <<"path", <<name>>>>
          [] a.body[1] = "Enum" ->
                <<"match", [ i \in DOMAIN a.body[2] |-> Case(name, a.body[2][i]) ]>>

\* a path of plain segments, `::a::b` when global
Plain(global, idents) ==
    [ global   |-> global,
      segments |-> [ i \in DOMAIN idents |->
                       [ ident |-> idents[i], parameters |-> NoParameters ] ] ]

\* Renaming { original: &ast.generics, lifetime_prefix: "'b", ty_param_prefix: "T" }
target_renaming(a) ==
    [ original |-> a.generics, lifetime_prefix |-> "'b", ty_param_prefix |-> "T" ]

\* Renaming { original: &ast.generics, lifetime_prefix: "'a", ty_param_prefix: "S" }
source_renaming(a) ==
    [ original |-> a.generics, lifetime_prefix |-> "'a", ty_param_prefix |-> "S" ]

\* target_generics, each ty_param with ::serde::Deserialize pushed
target_generics(a) ==
    LET folded == fold_generics(target_renaming(a), a.generics)
    IN  [ folded EXCEPT !.ty_params =
            [ i \in DOMAIN folded.ty_params |->
                [ folded.ty_params[i] EXCEPT !.bounds =
                    Append(@, ty_param_bound(Plain(TRUE, <<"serde", "Deserialize">>))) ] ] ]

target_path(a) == generic_path(a.ident, target_generics(a))

\* T: ::serde_roundtrip::SameDeserialization<SameAs=#target_path>
target_ty_param(a) ==
    [ ident  |-> "T",
      bounds |-> << ty_param_bound(
                      [ global   |-> TRUE,
                        segments |-> << [ ident |-> "serde_roundtrip", parameters |-> NoParameters ],
                                        [ ident |-> "SameDeserialization",
                                          parameters |->
                                            [ lifetimes |-> <<>>, types |-> <<>>,
                                              bindings |-> << <<"SameAs",
                                                <<"Path", <<"None">>, target_path(a)>>>> >> ] ] >> ]) >> ]

\* ::serde_roundtrip::RoundTrip<#target_ty_param_ident>
RoundTripOf(target_ty_param_ident) ==
    [ global   |-> TRUE,
      segments |-> << [ ident |-> "serde_roundtrip", parameters |-> NoParameters ],
                      [ ident |-> "RoundTrip",
                        parameters |->
                          [ lifetimes |-> <<>>,
                            types |-> << <<"Path", <<"None">>, PathFrom(target_ty_param_ident)>> >>,
                            bindings |-> <<>> ] ] >> ]

\* a zip that paired the source parameters with the target's back to front
source_generics_Crossed(a) ==
    LET folded == fold_generics(source_renaming(a), a.generics)
    IN  [ folded EXCEPT !.ty_params =
            [ i \in DOMAIN folded.ty_params |->
                [ folded.ty_params[i] EXCEPT !.bounds =
                    Append(@, ty_param_bound(RoundTripOf(
                        target_generics(a).ty_params[Len(folded.ty_params) + 1 - i].ident))) ] ] ]

\* source_generics, each ty_param zipped with the target's of the same index
\* and ::serde_roundtrip::RoundTrip<that> pushed
source_generics(a) ==
    LET folded == fold_generics(source_renaming(a), a.generics)
    IN  [ folded EXCEPT !.ty_params =
            [ i \in DOMAIN folded.ty_params |->
                [ folded.ty_params[i] EXCEPT !.bounds =
                    Append(@, ty_param_bound(RoundTripOf(target_generics(a).ty_params[i].ident))) ] ] ]

source_path(a) == generic_path(a.ident, source_generics(a))

\* all_generics: source then target lifetimes; source then target ty_params,
\* then T; source then target predicates
all_generics(a) ==
    [ lifetimes    |-> source_generics(a).lifetimes \o target_generics(a).lifetimes,
      ty_params    |-> source_generics(a).ty_params \o target_generics(a).ty_params
                         \o <<target_ty_param(a)>>,
      where_clause |-> source_generics(a).where_clause \o target_generics(a).where_clause ]

\* the two impls of the final quote!:
\* `impl #all_generics ::serde_roundtrip::RoundTrip<T> for #source_path
\* #all_where_clause { fn round_trip(&self) -> T { T::from(#round_trip) } }`
\* and `impl #target_generics ::serde_roundtrip::SameDeserialization for
\* #target_path #target_where_clause { type SameAs = Self;
\* fn from(data: Self) -> Self { data } }`
impl_round_trip(a) ==
    [ all_generics        |-> all_generics(a),
      trait               |-> RoundTripOf("T"),
      source_path         |-> source_path(a),
      all_where_clause    |-> all_generics(a).where_clause,
      round_trip          |-> <<"T::from", round_trip(a)>>,
      target_generics     |-> target_generics(a),
      target_path         |-> target_path(a),
      target_where_clause |-> target_generics(a).where_clause,
      SameAs              |-> "Self",
      from                |-> "data" ]

(***************************************************************************)
(* What the generated code does when it runs. A value of the derived type  *)
(* is <<"User", path, kind, <<name, value>>...>>, the fields of a tuple    *)
(* struct or variant named "0", "1", ...                                   *)
(***************************************************************************)
NoSuch == <<"error">>

\* the VariantData a path of the derived type names
DataOf(a, path) ==
    IF a.body[1] = "Struct" THEN a.body[2]
    ELSE LET hits == { i \in DOMAIN a.body[2] : a.body[2][i].ident = path[2] }
         IN  IF hits = {} THEN <<"Unit">> ELSE a.body[2][CHOOSE i \in hits : TRUE].data

FieldNames(data) ==
    CASE data[1] = "Struct" -> FieldIdents(data[2])
      [] data[1] = "Tuple"  -> IndexIdents(data[2])
      [] data[1] = "Unit"   -> <<>>

\* the declared type of field `f`
FieldTy(data, f) ==
    LET hits == { i \in DOMAIN FieldNames(data) : FieldNames(data)[i] = f }
    IN  IF hits = {} THEN NoSuch ELSE data[2][CHOOSE i \in hits : TRUE].ty

\* self.f, or a variable bound by a pattern: <<value, declared type>>
Get(bound, f) ==
    LET hits == { i \in DOMAIN bound : bound[i][1] = f }
    IN  IF hits = {} THEN NoSuch ELSE Tail(bound[CHOOSE i \in hits : TRUE])

\* the fields of self with their declared types, as `self.f` reads them
SelfFields(a, self) ==
    [ i \in DOMAIN self[4] |->
        <<self[4][i][1], self[4][i][2], FieldTy(DataOf(a, self[2]), self[4][i][1])>> ]

\* whether a pattern matches self
Matches(pat, self) ==
    /\ pat[2] = self[2]
    /\ \/ pat[1] = "struct_pat" /\ self[3] = "Struct"
       \/ pat[1] = "tuple_pat" /\ self[3] = "Tuple" /\ Len(pat[3]) = Len(self[4])
       \/ pat[1] = "path_pat" /\ self[3] = "Unit"

\* the variables a matching pattern binds: `ref name` binds the field of that
\* name, the i-th `ref x` of a tuple pattern the i-th field
Bound(a, pat, self) ==
    CASE pat[1] = "struct_pat" ->
            [ i \in DOMAIN pat[3] |-> <<pat[3][i]>> \o Get(SelfFields(a, self), pat[3][i]) ]
      [] pat[1] = "tuple_pat" ->
            [ i \in DOMAIN pat[3] |-> <<pat[3][i]>> \o Tail(SelfFields(a, self)[i]) ]
      [] pat[1] = "path_pat" -> <<>>

\* receiver.round_trip(): a field's target type is its declared type
EvalRoundTrip(expr, selfFields, locals) ==
    LET got == Get(IF expr[2][1] = "self" THEN selfFields ELSE locals, expr[2][2])
    IN  IF got = NoSuch \/ got[2] = NoSuch THEN NoSuch
        ELSE RoundTrip(got[2], got[2], got[1])

\* a constructor expression
EvalCtor(expr, selfFields, locals) ==
    CASE expr[1] = "struct_lit" ->
            <<"User", expr[2], "Struct",
              [ i \in DOMAIN expr[3] |->
                  <<expr[3][i][1], EvalRoundTrip(expr[3][i][2], selfFields, locals)>> ]>>
      [] expr[1] = "call" ->
            <<"User", expr[2], "Tuple",
              [ i \in DOMAIN expr[3] |->
                  <<ToString(i - 1), EvalRoundTrip(expr[3][i], selfFields, locals)>> ]>>
      [] expr[1] = "path" -> <<"User", expr[2], "Unit", <<>>>>

\* the expression inside T::from(...)
Eval(a, expr, self) ==
    IF expr[1] = "match"
    THEN LET hits == { i \in DOMAIN expr[2] : Matches(expr[2][i][1], self) }
         IN  IF hits = {} THEN NoSuch
             ELSE LET arm == expr[2][CHOOSE i \in hits : \A n \in hits : i <= n]
                  IN  EvalCtor(arm[2], <<>>, Bound(a, arm[1], self))
    ELSE EvalCtor(expr, SelfFields(a, self), <<>>)

\* T::from of the derived type, under the Box / Rc / Arc the caller asked for
RECURSIVE DerivedFrom(_, _, _)
DerivedFrom(t, g, data) ==
    IF t[1] \in Indirections THEN New(t[1], DerivedFrom(t[2], g, data))
    ELSE IF g.from = "data" THEN data ELSE NoSuch

(***************************************************************************)
(* The declarations and values the generator is run on.                    *)
(***************************************************************************)
FieldPool == <<"c", "a", "b", "d">>

VariantPool == <<"TupleCase", "StructCase", "UnitCase", "D", "E">>

TypePool == << <<"u8">>, <<"Cow", <<"str">>>>, <<"Box", <<"u8">>>>, <<"bool">> >>

Fields(kind, n) ==
    [ i \in 1..n |->
        [ ident |-> IF kind = "Struct" THEN <<"Some", FieldPool[i]>> ELSE <<"None">>,
          ty    |-> TypePool[((i + (IF kind = "Struct" THEN 0 ELSE 1)) % 4) + 1] ] ]

VariantDatas ==
    { <<kind, Fields(kind, n)>> : kind \in {"Struct", "Tuple"}, n \in 0..MaxFields }
    \cup { <<"Unit">> }

\* Generics::default()
NoGenerics == [ lifetimes |-> <<>>, ty_params |-> <<>>, where_clause |-> <<>> ]

Declarations ==
    { [ ident |-> "TestStruct", generics |-> NoGenerics, body |-> <<"Struct", data>> ] :
        data \in VariantDatas }
    \cup { [ ident |-> "TestEnum", generics |-> NoGenerics,
             body  |-> <<"Enum", [ i \in DOMAIN datas |->
                                     [ ident |-> VariantPool[i], data |-> datas[i] ] ]>> ] :
             datas \in SeqsUpTo(VariantDatas, MaxVariants) }

(***************************************************************************)
(* Generic declarations: every choice of lifetimes and type parameters     *)
(* from three name pools, under four styles of bounds.                     *)
(***************************************************************************)
TyParamPools == << <<"X", "Y", "Z", "W">>, <<"T1", "T0", "T3", "T2">>, <<"S1", "X", "S0", "T">> >>

LifetimePools ==
    << <<"'l", "'m", "'n", "'o">>, <<"'b1", "'b0", "'b3", "'b2">>, <<"'a1", "'l", "'a0", "'b0">> >>

Styles == { "plain", "bounded", "qualified", "clash" }

TyOf(ident) == <<"Path", <<"None">>, PathFrom(ident)>>

\* `ident<types>`
Applied(ident, types) ==
    [ global   |-> FALSE,
      segments |-> << [ ident |-> ident,
                        parameters |-> [ lifetimes |-> <<>>, types |-> types,
                                         bindings |-> <<>> ] ] >> ]

\* a trait of the user's crate that no parameter of P is named like
Foreign(P) == IF \A i \in DOMAIN P : P[i] # "T0" THEN "T0" ELSE "S0"

\* the bounds of the i-th type parameter
BoundsOf(style, P, L, i) ==
    LET next == P[(i % Len(P)) + 1]
    IN  CASE style = "plain" -> <<>>
          [] style = "bounded" ->
                \* Clone + Into<next> + 'l
                << <<"Trait", Plain(FALSE, <<"Clone">>)>>,
                   <<"Trait", Applied("Into", <<TyOf(next)>>)>>,
                   <<"Region", IF L = <<>> THEN "'static" ELSE L[1]>> >>
          [] style = "qualified" ->
                \* ::std::fmt::Debug + Iterator<Item = next> + From<next::Item>
                << <<"Trait", Plain(TRUE, <<"std", "fmt", "Debug">>)>>,
                   <<"Trait", [ global |-> FALSE,
                                segments |-> << [ ident |-> "Iterator",
                                                  parameters |->
                                                    [ lifetimes |-> <<>>, types |-> <<>>,
                                                      bindings |-> << <<"Item", TyOf(next)>> >> ] ] >> ]>>,
                   <<"Trait", Applied("From",
                                << <<"Path", <<"None">>, Plain(FALSE, <<next, "Item">>)>> >>)>> >>
          [] style = "clash" ->
                \* T0 + ::P, both traits of the user's crate
                << <<"Trait", Plain(FALSE, <<Foreign(P)>>)>>,
                   <<"Trait", Plain(TRUE, <<P[1]>>)>> >>

\* the where-clause
WhereOf(style, P, L) ==
    (IF P = <<>> THEN <<>>
     ELSE CASE style = "bounded" ->
                 \* Vec<P1>: Clone, Pn: PartialEq<&'l P1>
                 << <<"BoundPredicate", <<"Path", <<"None">>, Applied("Vec", <<TyOf(P[1])>>)>>,
                      << <<"Trait", Plain(FALSE, <<"Clone">>)>> >> >>,
                    <<"BoundPredicate", TyOf(P[Len(P)]),
                      << <<"Trait", Applied("PartialEq",
                            << <<"Rptr", IF L = <<>> THEN <<"None">> ELSE <<"Some", L[1]>>,
                                 TyOf(P[1])>> >>)>> >> >> >>
            [] style = "qualified" ->
                 \* <P1 as Iterator>::Item: Clone, std::vec::Vec<P1>: Clone
                 << <<"BoundPredicate",
                      <<"Path", <<"Some", TyOf(P[1])>>, Plain(FALSE, <<"Iterator", "Item">>)>>,
                      << <<"Trait", Plain(FALSE, <<"Clone">>)>> >> >>,
                    <<"BoundPredicate",
                      <<"Path", <<"None">>,
                        [ global |-> FALSE,
                          segments |-> Plain(FALSE, <<"std", "vec">>).segments
                                         \o Applied("Vec", <<TyOf(P[1])>>).segments ]>>,
                      << <<"Trait", Plain(FALSE, <<"Clone">>)>> >> >> >>
            [] OTHER -> <<>>)
    \o (IF L = <<>> \/ style = "plain" THEN <<>>
        ELSE << <<"RegionPredicate", L[Len(L)], <<"'static">>>> >>)

GenericsOf(style, P, L) ==
    [ lifetimes    |-> [ i \in DOMAIN L |->
                           [ lifetime |-> L[i],
                             bounds   |-> IF style = "plain" \/ Len(L) = 1 THEN <<>>
                                          ELSE <<L[(i % Len(L)) + 1]>> ] ],
      ty_params    |-> [ i \in DOMAIN P |->
                           [ ident |-> P[i], bounds |-> BoundsOf(style, P, L, i) ] ],
      where_clause |-> WhereOf(style, P, L) ]

GenericDeclarations ==
    { [ ident    |-> IF style = "clash" THEN "T" ELSE "Foo",
        generics |-> GenericsOf(style, SubSeq(TyParamPools[k], 1, n), SubSeq(LifetimePools[k], 1, m)),
        body     |-> <<"Struct", <<"Unit">>>> ] :
        style \in Styles, k \in DOMAIN TyParamPools, n \in 0..MaxParams, m \in 0..MaxParams }

\* the derive inputs that stand between two expansions of one declaration
Interleaved ==
    { [ ident    |-> "Foo",
        generics |-> GenericsOf("bounded", SubSeq(TyParamPools[2], 1, 2), SubSeq(LifetimePools[3], 1, 1)),
        body     |-> <<"Struct", <<"Unit">>>> ],
      [ ident    |-> "TestEnum", generics |-> NoGenerics,
        body     |-> <<"Enum", << [ ident |-> VariantPool[1], data |-> <<"Tuple", Fields("Tuple", 2)>> ],
                                  [ ident |-> VariantPool[2], data |-> <<"Tuple", Fields("Tuple", 1)>> ] >> >> ] }

FieldValue(ty, i, k) ==
    CASE ty = <<"u8">> -> <<"u8", 10 * i + k>>
      [] ty = <<"Cow", <<"str">>>> ->
            IF k = 0 THEN <<"Cow::Borrowed", <<"str", "a">>>>
            ELSE <<"Cow::Owned", <<"String", "b">>>>
      [] ty = <<"Box", <<"u8">>>> -> <<"Box", <<"u8", 100 + 10 * i + k>>>>
      [] ty = <<"bool">> -> <<"bool", k = 0>>

UserValue(path, data, k) ==
    <<"User", path, data[1],
      [ i \in DOMAIN FieldNames(data) |->
          <<FieldNames(data)[i], FieldValue(data[2][i].ty, i, k)>> ]>>

\* the values of the declared type
UserValues(a) ==
    IF a.body[1] = "Struct"
    THEN { UserValue(<<a.ident>>, a.body[2], k) : k \in 0..1 }
    ELSE { UserValue(<<a.ident, a.body[2][i].ident>>, a.body[2][i].data, k) :
             i \in DOMAIN a.body[2], k \in 0..1 }

InitDerive ==
    /\ mode = "derive"
    /\ pc = "parsed"
    /\ ast \in Declarations \cup GenericDeclarations
    /\ gen = None
    /\ calls = <<>>
    /\ S = None
    /\ T = None
    /\ source = None
    /\ via_round_trip = None
    /\ json = None
    /\ via_json = None
    /\ pending = None
    /\ impls = None
    /\ hashers = None

\* let gen = impl_round_trip(&ast);
ImplRoundTrip ==
    /\ mode = "derive"
    /\ pc = "parsed"
    /\ gen' = impl_round_trip(ast)
    /\ calls' = Append(calls, [ ast |-> ast, gen |-> gen' ])
    /\ pc' = "generated"
    /\ UNCHANGED <<mode, S, T, source, via_round_trip, json, via_json,
                   pending, impls, hashers, ast>>

\* the compiler reaches the next #[derive(RoundTrip)]: the same declaration
\* again, or another
NextInput ==
    /\ mode = "derive"
    /\ pc = "generated"
    /\ Len(calls) < MaxCalls
    /\ calls[1].ast \in GenericDeclarations \cup Interleaved
    /\ ast' \in { calls[i].ast : i \in DOMAIN calls } \cup Interleaved
    /\ gen' = None
    /\ pc' = "parsed"
    /\ UNCHANGED <<mode, S, T, source, via_round_trip, json, via_json,
                   pending, impls, hashers, calls>>

\* source.round_trip() through the generated impl
DerivedRoundTripStep ==
    /\ mode = "derive"
    /\ pc = "generated"
    /\ \E self \in UserValues(ast),
          t \in { <<"Derived", ast.ident>>, <<"Rc", <<"Derived", ast.ident>>>> } :
          /\ S' = <<"Derived", ast.ident>>
          /\ T' = t
          /\ source' = self
          /\ via_round_trip' = DerivedFrom(t, gen, Eval(ast, gen.round_trip[2], self))
    /\ pc' = "applied"
    /\ UNCHANGED <<mode, json, via_json, pending, impls, hashers, ast, gen, calls>>

Init == InitLib \/ InitArray \/ InitDerive

Next ==
    \/ RoundTripStep
    \/ ToStringStep
    \/ FromStrStep
    \/ ExpandArrayImpls
    \/ ArrayRoundTripStep
    \/ ImplRoundTrip
    \/ NextInput
    \/ DerivedRoundTripStep

Spec == Init /\ [][Next]_vars

(***************************************************************************)
(* What a result is measured against: the data a value carries, whatever   *)
(* owns or borrows it, and the wrappers a type or value is under.          *)
(***************************************************************************)
RECURSIVE Erase(_)
Erase(x) ==
    CASE x[1] \in Indirections \cup {"&", "&mut", "Cow::Borrowed", "Cow::Owned"}
            -> Erase(x[2])
      [] x[1] = "str" -> <<"String", x[2]>>
      [] x[1] \in {"Some", "Ok", "Err"} -> <<x[1], Erase(x[2])>>
      [] x[1] \in {"Vec", "[]"} -> <<"Vec", [ i \in DOMAIN x[2] |-> Erase(x[2][i]) ]>>
      [] x[1] \in {"Tuple", "Array"} -> <<x[1], [ i \in DOMAIN x[2] |-> Erase(x[2][i]) ]>>
      [] OTHER -> x

HasType(x, t) == x \in ValuesOf(t)

\* the Box / Rc / Arc heads a type or a value is under, outermost first
RECURSIVE StackOf(_)
StackOf(x) ==
    IF x[1] \in Indirections THEN <<x[1]>> \o StackOf(x[2]) ELSE <<>>

\* what is under them
RECURSIVE Core(_)
Core(x) == IF x[1] \in Indirections THEN Core(x[2]) ELSE x

\* PartialEq, as assert_eq! compares: a HashMap or a HashSet whatever its
\* iteration order
Equal(a, b) ==
    IF a[1] \in {"HashMap", "HashSet"}
    THEN b[1] = a[1] /\ Len(b[2]) = Len(a[2]) /\ Range(b[2]) = Range(a[2])
    ELSE a = b

IsStacked == mode = "lib" /\ Core(S) \in Scalars

\* C1: serializing `source` and deserializing the result at T yields
\* Ok(source.round_trip()), for every instance and every value.
C1_RoundTripEquivalence ==
    (mode = "lib" /\ pc = "done") =>
        via_json[1] = "Ok" /\ Equal(via_json[2], via_round_trip)

\* what the derived round_trip must return for `self`: the same path and
\* shape, each field in its declared place transformed at its declared type
Expected(a, self) ==
    <<"User", self[2], self[3],
      [ i \in DOMAIN self[4] |->
          <<self[4][i][1],
            RoundTrip(DataOf(a, self[2])[2][i].ty, DataOf(a, self[2])[2][i].ty,
                      self[4][i][2])>> ]>>

\* C2: a parameter-free type with a SameDeserialization instance is its own
\* SameAs and its `from` returns its argument; the instance the derive
\* generator emits has `SameAs = Self` and a `from` that returns its argument.
C2_IdentityLaw ==
    /\ \A name \in ViaClone : SameAs(<<name>>) = <<name>>
    /\ (mode = "lib" /\ pc # "start" /\ T[1] \in ViaClone) =>
          /\ SameAs(T) = T
          /\ \A data \in ValuesOf(T) : From(T, data) = data
          /\ via_round_trip = Erase(source)
    /\ (mode = "derive" /\ pc # "parsed") =>
          /\ gen.SameAs = "Self"
          /\ gen.from = "data"
          /\ \A data \in UserValues(ast) :
                DerivedFrom(<<"Derived", ast.ident>>, gen, data) = data

C2_Witness ==
    /\ mode = "lib" /\ pc = "done"
    /\ S = <<"Box", <<"u8">>>> /\ T = <<"u8">>
    /\ source = <<"Box", <<"u8", 255>>>>
    /\ via_round_trip = <<"u8", 255>>

\* C3 as the claim states it: round_trip of F<S> re-wraps its result in F, and
\* SameAs(F<T>) = F<SameAs(T)>.
C3_Original ==
    (mode = "lib" /\ pc # "start") =>
        /\ S[1] \in Indirections => via_round_trip[1] = S[1]
        /\ T[1] \in Indirections => SameAs(T) = <<T[1], SameAs(T[2])>>

\* C3, amended: round_trip of F<S> at target T is the pointee's round_trip at
\* the same T, the source's F dropped: the result carries the source's data
\* under exactly the target's wrappers. SameAs(F<T>) is the pointee's SameAs
\* with no indirection around it, and it is `from` of F<T> that wraps in F.
C3_DerefThenFromWraps ==
    (mode = "lib" /\ pc # "start") =>
        /\ S[1] \in Indirections =>
              /\ HasType(via_round_trip, T)
              /\ StackOf(via_round_trip) = StackOf(T)
              /\ Erase(via_round_trip) = Erase(source)
        /\ T[1] \in Indirections =>
              /\ SameAs(T) = SameAs(Core(T))
              /\ SameAs(T)[1] \notin Indirections
              /\ \A data \in ValuesOf(SameAs(T)) :
                    From(T, data) = Wrap(StackOf(T), From(Core(T), data))

C3_Witness ==
    /\ mode = "lib" /\ pc = "done"
    /\ S[1] \in Indirections /\ T[1] \in Indirections /\ S[1] # T[1]
    /\ Len(StackOf(S)) = 2 /\ Len(StackOf(T)) = 1

\* C4: a scalar under any stack of Box / Rc / Arc on the source side and any
\* stack on the target side round-trips to the target's stack around a copy of
\* the scalar, and that is what the JSON round trip yields.
C4_NestedComposition ==
    (IsStacked /\ pc = "done") =>
        /\ via_round_trip = Wrap(StackOf(T), Core(source))
        /\ via_json[1] = "Ok"
        /\ Equal(via_json[2], via_round_trip)

C4_Witness ==
    /\ IsStacked /\ pc = "done"
    /\ StackOf(S) = <<"Arc", "Rc">>
    /\ StackOf(T) = <<"Box", "Rc", "Arc">>
    /\ via_round_trip = <<"Box", <<"Rc", <<"Arc", <<"bool", TRUE>>>>>>>>

\* C8: round_trip keeps the tag of an Option or a Result and transforms the
\* payload with the relation of its own arm.
C8_TagsPreserved ==
    (mode = "lib" /\ pc # "start" /\ S[1] \in {"Option", "Result"}) =>
        LET r == Core(via_round_trip)
            t == SameAs(T)
        IN  /\ r[1] = source[1]
            /\ source[1] = "None" => r = <<"None">>
            /\ source[1] \in {"Some", "Ok"} =>
                  HasType(r[2], t[2]) /\ Erase(r[2]) = Erase(source[2])
            /\ source[1] = "Err" =>
                  HasType(r[2], t[3]) /\ Erase(r[2]) = Erase(source[2])

C8_Witness ==
    /\ mode = "lib" /\ pc = "done"
    /\ S = <<"Result", <<"bool">>, <<"bool">>>>
    /\ T = <<"Result", <<"bool">>, <<"Box", <<"bool">>>>>>
    /\ source = <<"Err", <<"bool", TRUE>>>>
    /\ via_round_trip = <<"Err", <<"Box", <<"bool", TRUE>>>>>>

\* C6: there is one tuple instance for each arity 1..16 and no other, and
\* component i of the result is the round_trip of component i of the source
\* under S_i -> T_i; the arity is kept.
C6_TupleOrder ==
    (mode = "lib" /\ pc # "start" /\ S[1] = "Tuple") =>
        /\ \A n \in 1..16 :
              Cardinality({ i \in DOMAIN TupleImpls : Len(TupleImpls[i].for) = n }) = 1
        /\ \A i \in DOMAIN TupleImpls :
              LET impl == TupleImpls[i]
              IN  /\ Len(impl.for) \in 1..16
                  /\ Len(impl.same_as) = Len(impl.for)
                  /\ Len(impl.result) = Len(impl.for)
                  /\ \A j \in DOMAIN impl.result :
                        <<impl.for[Binding(impl, j)], impl.same_as[j]>> = impl.bounds[j]
        /\ LET r == Core(via_round_trip)
              t == SameAs(T)
          IN  /\ r[1] = "Tuple"
              /\ Len(r[2]) = Len(source[2])
              /\ \A i \in DOMAIN source[2] :
                    /\ Erase(r[2][i]) = Erase(source[2][i])
                    /\ StackOf(r[2][i]) = StackOf(t[2][i])

C6_Witness ==
    /\ mode = "lib" /\ pc = "done"
    /\ S[1] = "Tuple" /\ Len(S[2]) = 16
    /\ T[2][1] # T[2][2]
    /\ via_round_trip[2][16] = <<"u8", 16>>
    /\ via_round_trip[2][2] = <<"Box", <<"u8", 2>>>>

\* C7: the expansion of array_impls!(32, ..., 0) ends after emitting exactly
\* one instance for each length 0..32 and no other; in the instance for
\* length n each index $len-($indices+1) lies in 0..n-1 and result position i
\* is the round_trip of source position i; the instance for 0 yields [].
C7_ArrayImpls ==
    mode = "array" =>
        /\ Len(pending) + Len(impls) = Len(array_impls_invocation)
        /\ (pc = "expanding") = (pending # <<>>)
        /\ \A i \in DOMAIN impls :
              /\ impls[i].len = 33 - i
              /\ impls[i].len \in 0..32
              /\ Len(impls[i].indices) = impls[i].len
              /\ \A j \in DOMAIN impls[i].indices :
                    /\ Index(impls[i].len, impls[i].indices[j]) = j - 1
                    /\ Index(impls[i].len, impls[i].indices[j]) \in 0..(impls[i].len - 1)
        /\ pc # "expanding" => { impls[i].len : i \in DOMAIN impls } = 0..32
        /\ pc = "applied" =>
              /\ via_round_trip[1] = "Ts::from"
              /\ Len(via_round_trip[2][2]) = S[2]
              /\ \A j \in 1..S[2] :
                    via_round_trip[2][2][j] = From(T[2][3], source[2][j])
              /\ S[2] = 0 => via_round_trip = TsFrom(<<"Array", <<>>>>)

C7_Witness ==
    /\ mode = "array" /\ pc = "applied"
    /\ S[2] = 32
    /\ T[2][3] = <<"Box", <<"u8">>>>
    /\ via_round_trip[2][2][32] = <<"Box", <<"u8", 32>>>>
    /\ via_round_trip[2][2][1] = <<"Box", <<"u8", 1>>>>

\* the entries a rebuilt collection must hold: each transformed key once, a
\* map's key with the transformed value of the last source entry under it
Rebuilt(s, t, entries) ==
    { <<RoundTrip(s[2], t[2], entries[i][1])>>
        \o (IF Len(entries[i]) = 1 THEN <<>>
            ELSE LET last == CHOOSE j \in DOMAIN entries :
                        /\ RoundTrip(s[2], t[2], entries[j][1])
                             = RoundTrip(s[2], t[2], entries[i][1])
                        /\ \A n \in DOMAIN entries :
                             RoundTrip(s[2], t[2], entries[n][1])
                               = RoundTrip(s[2], t[2], entries[i][1]) => n <= j
                 IN  <<RoundTrip(s[3], t[3], entries[last][2])>>)
      : i \in DOMAIN entries }

\* C9: round_trip of a BTreeMap, BTreeSet, HashMap or HashSet is the target
\* collection rebuilt from the transformed entries in source iteration order:
\* one entry for each distinct target key, the later value winning, in the
\* target's own iteration order; and it equals what the JSON round trip
\* yields, compared as the collection compares (whatever the iteration order).
C9_CollectionsRebuilt ==
    (mode = "lib" /\ pc = "done" /\ S[1] \in Collections) =>
        LET r   == via_round_trip
            ord == IF S[1] \in {"BTreeMap", "BTreeSet"} THEN 0 ELSE hashers[1]
        IN  /\ r[1] = T[1]
            /\ Range(r[2]) = Rebuilt(S, T, source[2])
            /\ Len(r[2]) = Cardinality(Rebuilt(S, T, source[2]))
            /\ \A i, j \in DOMAIN r[2] :
                  i < j => Place(ord, r[2][i][1]) < Place(ord, r[2][j][1])
            /\ via_json[1] = "Ok"
            /\ Equal(via_json[2], r)

C9_Witness ==
    /\ mode = "lib" /\ pc = "done"
    /\ S[1] = "HashMap" /\ T[2] = <<"Folded">>
    /\ hashers[1] # hashers[2]
    /\ source[2] = << << <<"&", <<"str", "b">>>>, <<"bool", TRUE>> >>,
                      << <<"&", <<"str", "a">>>>, <<"bool", TRUE>> >>,
                      << <<"&", <<"str", "A">>>>, <<"bool", FALSE>> >> >>
    /\ Range(via_round_trip[2]) =
          { << <<"Folded", "a">>, <<"Box", <<"bool", FALSE>>>> >>,
            << <<"Folded", "b">>, <<"Box", <<"bool", TRUE>>>> >> }
    /\ via_json[2][2] # via_round_trip[2]

\* the i-th arm of the generated match is the arm of the i-th declared variant
ArmFor(name, arm, variant) ==
    LET path   == <<name, variant.ident>>
        data   == variant.data
        names  == FieldNames(data)
    IN  /\ arm[1][2] = path
        /\ arm[2][2] = path
        /\ data[1] = "Struct" =>
              /\ arm[1][1] = "struct_pat" /\ arm[2][1] = "struct_lit"
              /\ arm[1][3] = names
              /\ Len(arm[2][3]) = Len(names)
              /\ \A j \in DOMAIN names :
                    arm[2][3][j] = <<names[j], <<"round_trip", <<"var", names[j]>>>>>>
        /\ data[1] = "Tuple" =>
              /\ arm[1][1] = "tuple_pat" /\ arm[2][1] = "call"
              /\ Len(arm[1][3]) = Len(names)
              /\ Len(arm[2][3]) = Len(names)
              /\ \A j, n \in DOMAIN names : arm[1][3][j] = arm[1][3][n] => j = n
              /\ \A j \in DOMAIN names :
                    arm[2][3][j] = <<"round_trip", <<"var", arm[1][3][j]>>>>
        /\ data[1] = "Unit" =>
              arm[1][1] = "path_pat" /\ arm[2][1] = "path"

\* C5: the round_trip generated for an enum is a match with one arm for each
\* declared variant, in declared order, each rebuilding its own variant; a
\* struct-like variant keeps every field under its name, a tuple-like variant
\* every field at its position, a unit variant is the bare path; and for every
\* value the result is the same variant with each field transformed by its
\* own round_trip.
C5_SumTypeFidelity ==
    (mode = "derive" /\ pc # "parsed" /\ ast.body[1] = "Enum") =>
        LET arms == gen.round_trip[2][2]
        IN  /\ gen.round_trip[2][1] = "match"
            /\ Len(arms) = Len(ast.body[2])
            /\ \A i \in DOMAIN ast.body[2] : ArmFor(ast.ident, arms[i], ast.body[2][i])
            /\ pc = "applied" =>
                  /\ Core(via_round_trip) = Expected(ast, source)
                  /\ Core(via_round_trip)[2] = source[2]
                  /\ Len(Core(via_round_trip)[4]) = Len(source[4])

C5_Witness ==
    /\ mode = "derive" /\ pc = "applied"
    /\ ast.body[1] = "Enum"
    /\ [ i \in DOMAIN ast.body[2] |-> ast.body[2][i].data ] =
          << <<"Tuple", Fields("Tuple", 2)>>, <<"Struct", Fields("Struct", 2)>>, <<"Unit">> >>
    /\ T = <<"Derived", "TestEnum">>
    /\ source = <<"User", <<"TestEnum", "StructCase">>, "Struct",
                  << <<"c", <<"Cow::Borrowed", <<"str", "a">>>>>>,
                     <<"a", <<"Box", <<"u8", 120>>>>>> >> >>
    /\ via_round_trip = <<"User", <<"TestEnum", "StructCase">>, "Struct",
                          << <<"c", <<"Cow::Owned", <<"String", "a">>>>>>,
                             <<"a", <<"Box", <<"u8", 120>>>>>> >> >>

\* C10: the round_trip generated for a struct is T::from of one expression: a
\* record's is the literal of the same type with `name: self.name.round_trip()`
\* for each declared field in declared order, a tuple struct's the call of the
\* same type with `self.i.round_trip()` for i = 0..n-1, a unit struct's the
\* bare path; the value it returns has each field in its declared place
\* transformed at its declared type, under what T::from adds.
C10_StructBody ==
    (mode = "derive" /\ pc # "parsed" /\ ast.body[1] = "Struct") =>
        LET data  == ast.body[2]
            n     == IF data[1] = "Unit" THEN 0 ELSE Len(data[2])
            body  == gen.round_trip[2]
        IN  /\ gen.round_trip[1] = "T::from"
            /\ body[2] = <<ast.ident>>
            /\ data[1] = "Struct" =>
                  /\ body[1] = "struct_lit"
                  /\ Len(body[3]) = n
                  /\ \A i \in 1..n :
                        body[3][i] = <<data[2][i].ident[2],
                                       <<"round_trip", <<"self", data[2][i].ident[2]>>>>>>
            /\ data[1] = "Tuple" =>
                  /\ body[1] = "call"
                  /\ Len(body[3]) = n
                  /\ \A i \in 1..n :
                        body[3][i] = <<"round_trip", <<"self", ToString(i - 1)>>>>
            /\ data[1] = "Unit" => body = <<"path", <<ast.ident>>>>
            /\ pc = "applied" =>
                  via_round_trip = Wrap(StackOf(T), Expected(ast, source))

C10_Witness ==
    /\ mode = "derive" /\ pc = "applied"
    /\ ast.body = <<"Struct", <<"Tuple", Fields("Tuple", 2)>>>>
    /\ T = <<"Rc", <<"Derived", "TestStruct">>>>
    /\ gen.round_trip =
          <<"T::from", <<"call", <<"TestStruct">>,
                         << <<"round_trip", <<"self", "0">>>>,
                            <<"round_trip", <<"self", "1">>>> >> >> >>
    /\ via_round_trip =
          <<"Rc", <<"User", <<"TestStruct">>, "Tuple",
                    << <<"0", <<"Box", <<"u8", 110>>>>>>, <<"1", <<"bool", TRUE>>>> >> >> >>

(***************************************************************************)
(* What the renaming is measured against: the identifiers of a Generics in *)
(* reading order, each with the place it stands in: "param" a declared     *)
(* type parameter, "lone" the segment of a one-segment path without        *)
(* arguments, "global" the same after a leading `::`, "head" the first     *)
(* segment of any other path without leading `::`, "seg" any other         *)
(* segment, "binding" the name of an associated type, "lifetime".          *)
(***************************************************************************)
RECURSIVE Flat(_)
Flat(seqs) == IF seqs = <<>> THEN <<>> ELSE Head(seqs) \o Flat(Tail(seqs))

Lifetimes(names) == [ i \in DOMAIN names |-> <<"lifetime", names[i]>> ]

RECURSIVE IdentsTy(_), IdentsPath(_)
IdentsTy(ty) ==
    IF ty[1] = "Path"
    THEN (IF ty[2][1] = "Some" THEN IdentsTy(ty[2][2]) ELSE <<>>) \o IdentsPath(ty[3])
    ELSE (IF ty[2][1] = "Some" THEN Lifetimes(<<ty[2][2]>>) ELSE <<>>) \o IdentsTy(ty[3])

IdentsPath(path) ==
    LET alone == Len(path.segments) = 1 /\ IsEmpty(path.segments[1].parameters)
    IN  Flat([ i \in DOMAIN path.segments |->
                 << << IF alone THEN (IF path.global THEN "global" ELSE "lone")
                       ELSE IF i = 1 /\ ~path.global THEN "head" ELSE "seg",
                       path.segments[i].ident >> >>
                 \o Lifetimes(path.segments[i].parameters.lifetimes)
                 \o Flat([ j \in DOMAIN path.segments[i].parameters.types |->
                             IdentsTy(path.segments[i].parameters.types[j]) ])
                 \o Flat([ j \in DOMAIN path.segments[i].parameters.bindings |->
                             << <<"binding", path.segments[i].parameters.bindings[j][1]>> >>
                             \o IdentsTy(path.segments[i].parameters.bindings[j][2]) ]) ])

IdentsBounds(bounds) ==
    Flat([ j \in DOMAIN bounds |->
             IF bounds[j][1] = "Trait" THEN IdentsPath(bounds[j][2])
             ELSE Lifetimes(<<bounds[j][2]>>) ])

IdentsGenerics(g) ==
    Flat([ i \in DOMAIN g.lifetimes |->
             Lifetimes(<<g.lifetimes[i].lifetime>>) \o Lifetimes(g.lifetimes[i].bounds) ])
    \o Flat([ i \in DOMAIN g.ty_params |->
                << <<"param", g.ty_params[i].ident>> >> \o IdentsBounds(g.ty_params[i].bounds) ])
    \o Flat([ i \in DOMAIN g.where_clause |->
                IF g.where_clause[i][1] = "BoundPredicate"
                THEN IdentsTy(g.where_clause[i][2]) \o IdentsBounds(g.where_clause[i][3])
                ELSE Lifetimes(<<g.where_clause[i][2]>>) \o Lifetimes(g.where_clause[i][3]) ])

\* a Generics without the bound the generator pushed onto each type parameter
Unpushed(g) ==
    [ g EXCEPT !.ty_params =
        [ i \in DOMAIN g.ty_params |->
            [ g.ty_params[i] EXCEPT !.bounds = SubSeq(@, 1, Len(@) - 1) ] ] ]

\* the source half of the generated all_generics
SourceHalf(a, g) ==
    Unpushed([ lifetimes    |-> SubSeq(g.all_generics.lifetimes, 1, Len(a.generics.lifetimes)),
               ty_params    |-> SubSeq(g.all_generics.ty_params, 1, Len(a.generics.ty_params)),
               where_clause |-> SubSeq(g.all_where_clause, 1, Len(a.generics.where_clause)) ])

\* the 1-based place of a name among the declared parameters, 0 for none
PlaceIn(names, ident) ==
    IF \E i \in DOMAIN names : names[i] = ident
    THEN CHOOSE i \in DOMAIN names : names[i] = ident ELSE 0

DeclaredTyParams(a) == [ i \in DOMAIN a.generics.ty_params |-> a.generics.ty_params[i].ident ]

DeclaredLifetimes(a) == [ i \in DOMAIN a.generics.lifetimes |-> a.generics.lifetimes[i].lifetime ]

\* occurrence k of the declaration, renamed as its place among the declared
\* parameters says
RenamedAt(a, before, after, k, lifetime_prefix, ty_param_prefix) ==
    LET p == PlaceIn(DeclaredTyParams(a), before[k][2])
        l == PlaceIn(DeclaredLifetimes(a), before[k][2])
    IN  /\ after[k][1] = before[k][1]
        /\ (before[k][1] \in {"param", "lone"} /\ p > 0) =>
              after[k][2] = ty_param_prefix \o ToString(p - 1)
        /\ (before[k][1] = "lifetime" /\ l > 0) =>
              after[k][2] = lifetime_prefix \o ToString(l - 1)

IsGeneric == mode = "derive" /\ pc # "parsed" /\ ast \in GenericDeclarations

\* C11: the i-th declared lifetime becomes 'a(i-1) on the source side and
\* 'b(i-1) on the target side, the i-th declared type parameter S(i-1) and
\* T(i-1); every bare occurrence of a parameter in the bounds and the
\* where-clause is replaced by the name of its own place in the declared
\* list, once, whatever the declared names are; and the generated lifetimes,
\* and the generated type parameters with the extra T, are pairwise distinct.
C11_RenamingBijective ==
    IsGeneric =>
        LET before == IdentsGenerics(ast.generics)
            src    == IdentsGenerics(SourceHalf(ast, gen))
            tgt    == IdentsGenerics(Unpushed(gen.target_generics))
            lts    == gen.all_generics.lifetimes
            tps    == gen.all_generics.ty_params
            nl     == Len(ast.generics.lifetimes)
            n      == Len(ast.generics.ty_params)
        IN  /\ Len(src) = Len(before) /\ Len(tgt) = Len(before)
            /\ \A k \in DOMAIN before :
                  /\ RenamedAt(ast, before, src, k, "'a", "S")
                  /\ RenamedAt(ast, before, tgt, k, "'b", "T")
            /\ Len(lts) = 2 * nl /\ Len(tps) = 2 * n + 1
            /\ \A i \in 1..nl :
                  /\ lts[i].lifetime = "'a" \o ToString(i - 1)
                  /\ lts[nl + i].lifetime = "'b" \o ToString(i - 1)
            /\ \A i \in 1..n :
                  /\ tps[i].ident = "S" \o ToString(i - 1)
                  /\ tps[n + i].ident = "T" \o ToString(i - 1)
            /\ tps[2 * n + 1].ident = "T"
            /\ \A i, j \in DOMAIN lts : lts[i].lifetime = lts[j].lifetime => i = j
            /\ \A i, j \in DOMAIN tps : tps[i].ident = tps[j].ident => i = j

C11_Witness ==
    /\ IsGeneric
    /\ DeclaredTyParams(ast) = <<"T1", "T0">>
    /\ DeclaredLifetimes(ast) = <<"'b1", "'b0">>
    /\ Len(ast.generics.ty_params[1].bounds) = 3
    /\ ast.generics.ty_params[1].bounds[2] = <<"Trait", Applied("Into", <<TyOf("T0")>>)>>
    /\ gen.target_generics.ty_params[1].ident = "T0"
    /\ gen.target_generics.ty_params[1].bounds[2] = <<"Trait", Applied("Into", <<TyOf("T1")>>)>>
    /\ gen.target_generics.lifetimes[1] = [ lifetime |-> "'b0", bounds |-> <<"'b1">> ]
    /\ gen.target_path.segments[1].parameters.types = <<TyOf("T0"), TyOf("T1")>>

\* occurrence k stands in a path: its identifier is replaced, by the name of
\* its place, exactly when the path is one segment without arguments naming a
\* declared type parameter
ScopedAt(a, before, after, k, ty_param_prefix) ==
    LET p == PlaceIn(DeclaredTyParams(a), before[k][2])
    IN  /\ before[k][1] \in {"lone", "global"} =>
              after[k][2] = IF p > 0 THEN ty_param_prefix \o ToString(p - 1) ELSE before[k][2]
        /\ before[k][1] \in {"head", "seg", "binding"} => after[k] = before[k]

\* C12: folding the generics renames the identifier of a path exactly when
\* the path is a single segment without arguments and the identifier is a
\* declared type parameter; every segment of a longer path, and a segment
\* with arguments, keeps its identifier, and the one-segment paths inside
\* its arguments are renamed all the same.
C12_RenamingScope ==
    IsGeneric =>
        LET before == IdentsGenerics(ast.generics)
            src    == IdentsGenerics(SourceHalf(ast, gen))
            tgt    == IdentsGenerics(Unpushed(gen.target_generics))
        IN  /\ Len(src) = Len(before) /\ Len(tgt) = Len(before)
            /\ \A k \in DOMAIN before :
                  /\ ScopedAt(ast, before, src, k, "S")
                  /\ ScopedAt(ast, before, tgt, k, "T")

C12_Witness ==
    /\ IsGeneric
    /\ DeclaredTyParams(ast) = <<"S1", "X">>
    /\ Len(ast.generics.where_clause) >= 2
    /\ ast.generics.where_clause[2][2] =
          <<"Path", <<"None">>,
            [ global |-> FALSE,
              segments |-> Plain(FALSE, <<"std", "vec">>).segments
                             \o Applied("Vec", <<TyOf("S1")>>).segments ]>>
    /\ gen.all_where_clause[2][2] =
          <<"Path", <<"None">>,
            [ global |-> FALSE,
              segments |-> Plain(FALSE, <<"std", "vec">>).segments
                             \o Applied("Vec", <<TyOf("S0")>>).segments ]>>
    /\ gen.all_generics.ty_params[1].ident = "S0"
    /\ gen.all_generics.ty_params[1].bounds[3] =
          <<"Trait", Applied("From", << <<"Path", <<"None">>, Plain(FALSE, <<"X", "Item">>)>> >>)>>

\* the names the generated RoundTrip impl declares
GeneratedNames(g) ==
    { g.all_generics.lifetimes[i].lifetime : i \in DOMAIN g.all_generics.lifetimes }
    \cup { g.all_generics.ty_params[i].ident : i \in DOMAIN g.all_generics.ty_params }

\* occurrence k names something other than a parameter of the type
NotOwn(a, before, k) ==
    \/ before[k][1] \in {"global", "seg", "binding"}
    \/ before[k][1] \in {"lone", "head"} /\ PlaceIn(DeclaredTyParams(a), before[k][2]) = 0
    \/ before[k][1] = "lifetime" /\ PlaceIn(DeclaredLifetimes(a), before[k][2]) = 0

\* occurrence k is looked up in the scope of the impl
InScope(before, k) == before[k][1] \in {"lone", "head", "lifetime"}

\* C13: an identifier of the declaration that is not a parameter of the type
\* (a type or trait named in a bound or where-clause, 'static, the type's own
\* name) is the same in the generated impls and is none of the names the
\* generated impl declares.
C13_NoCapture ==
    IsGeneric =>
        LET before == IdentsGenerics(ast.generics)
            src    == IdentsGenerics(SourceHalf(ast, gen))
            tgt    == IdentsGenerics(Unpushed(gen.target_generics))
        IN  /\ \A k \in DOMAIN before :
                  NotOwn(ast, before, k) =>
                      /\ src[k] = before[k]
                      /\ tgt[k] = before[k]
                      /\ InScope(before, k) => before[k][2] \notin GeneratedNames(gen)
            /\ gen.source_path.segments[1].ident = ast.ident
            /\ gen.target_path.segments[1].ident = ast.ident
            /\ ast.ident \notin GeneratedNames(gen)

\* `::krate::name<types>`
Qualified(krate, name, types) ==
    [ global   |-> TRUE,
      segments |-> Plain(FALSE, <<krate>>).segments \o Applied(name, types).segments ]

\* C14: the generated RoundTrip impl declares the source lifetimes, the
\* target lifetimes, S0.., T0.. and T, in that order; S(i) has the declared
\* bounds of the i-th parameter, renamed, then ::serde_roundtrip::RoundTrip<T(i)>
\* and no other; T(i) has them, renamed, then ::serde::Deserialize; T has
\* ::serde_roundtrip::SameDeserialization<SameAs = the type at the target
\* parameters>; the where-clause is the source predicates, then the target
\* predicates; without type parameters T and its bound are all there is.
C14_BoundSynthesis ==
    IsGeneric =>
        LET g   == ast.generics
            n   == Len(g.ty_params)
            nl  == Len(g.lifetimes)
            w   == Len(g.where_clause)
            tps == gen.all_generics.ty_params
            lts == gen.all_generics.lifetimes
            src == IdentsGenerics(SourceHalf(ast, gen))
            tgt == IdentsGenerics(Unpushed(gen.target_generics))
            before == IdentsGenerics(g)
        IN  /\ [ i \in DOMAIN lts |-> lts[i].lifetime ] =
                  [ i \in 1..(2 * nl) |->
                      IF i <= nl THEN "'a" \o ToString(i - 1) ELSE "'b" \o ToString(i - nl - 1) ]
            /\ [ i \in DOMAIN tps |-> tps[i].ident ] =
                  [ i \in 1..(2 * n + 1) |->
                      IF i <= n THEN "S" \o ToString(i - 1)
                      ELSE IF i <= 2 * n THEN "T" \o ToString(i - n - 1) ELSE "T" ]
            /\ \A i \in 1..n :
                  LET declared == Len(g.ty_params[i].bounds)
                  IN  /\ Len(tps[i].bounds) = declared + 1
                      /\ tps[i].bounds[declared + 1] =
                            <<"Trait", Qualified("serde_roundtrip", "RoundTrip",
                                                 <<TyOf("T" \o ToString(i - 1))>>)>>
                      /\ Len(tps[n + i].bounds) = declared + 1
                      /\ tps[n + i].bounds[declared + 1] =
                            <<"Trait", Plain(TRUE, <<"serde", "Deserialize">>)>>
                      /\ tps[n + i] = gen.target_generics.ty_params[i]
            /\ Len(src) = Len(before) /\ Len(tgt) = Len(before)
            /\ \A k \in DOMAIN before :
                  /\ RenamedAt(ast, before, src, k, "'a", "S")
                  /\ RenamedAt(ast, before, tgt, k, "'b", "T")
            /\ tps[2 * n + 1].bounds =
                  << <<"Trait",
                       [ global   |-> TRUE,
                         segments |-> Plain(FALSE, <<"serde_roundtrip">>).segments
                           \o << [ ident |-> "SameDeserialization",
                                   parameters |->
                                     [ lifetimes |-> <<>>, types |-> <<>>,
                                       bindings |-> << <<"SameAs",
                                         <<"Path", <<"None">>,
                                           [ global |-> FALSE,
                                             segments |-> << [ ident |-> ast.ident,
                                               parameters |->
                                                 [ lifetimes |-> [ i \in 1..nl |-> "'b" \o ToString(i - 1) ],
                                                   types |-> [ i \in 1..n |-> TyOf("T" \o ToString(i - 1)) ],
                                                   bindings |-> <<>> ] ] >> ]>>>> >> ] ] >> ]>> >>
            /\ Len(gen.all_where_clause) = 2 * w
            /\ SubSeq(gen.all_where_clause, w + 1, 2 * w) = gen.target_where_clause
            /\ gen.target_where_clause = gen.target_generics.where_clause
            /\ n = 0 => Len(tps) = 1

C14_Witness ==
    /\ IsGeneric
    /\ DeclaredTyParams(ast) = <<"X", "Y">>
    /\ DeclaredLifetimes(ast) = <<"'l">>
    /\ Len(ast.generics.ty_params[1].bounds) = 3
    /\ Len(ast.generics.where_clause) = 3
    /\ gen.all_generics.ty_params[2].ident = "S1"
    /\ gen.all_generics.ty_params[2].bounds =
          << <<"Trait", Plain(FALSE, <<"Clone">>)>>,
             <<"Trait", Applied("Into", <<TyOf("S0")>>)>>,
             <<"Region", "'a0">>,
             <<"Trait", Qualified("serde_roundtrip", "RoundTrip", <<TyOf("T1")>>)>> >>
    /\ gen.all_generics.ty_params[4].bounds[4] = <<"Trait", Plain(TRUE, <<"serde", "Deserialize">>)>>
    /\ gen.all_where_clause[3] = <<"RegionPredicate", "'a0", <<"'static">>>>
    /\ gen.all_where_clause[6] = <<"RegionPredicate", "'b0", <<"'static">>>>

C14_WitnessNoParams ==
    /\ IsGeneric
    /\ ast.generics.ty_params = <<>>
    /\ DeclaredLifetimes(ast) = <<"'l">>
    /\ Len(gen.all_generics.ty_params) = 1
    /\ gen.all_generics.ty_params[1].ident = "T"

\* the names a generated impl numbers: its lifetimes, its type parameters and
\* the bindings of its tuple-like match arms
Numbered(g) ==
    << [ i \in DOMAIN g.all_generics.lifetimes |-> g.all_generics.lifetimes[i].lifetime ],
       [ i \in DOMAIN g.all_generics.ty_params |-> g.all_generics.ty_params[i].ident ],
       IF g.round_trip[2][1] = "match"
       THEN [ i \in DOMAIN g.round_trip[2][2] |->
                IF g.round_trip[2][2][i][1][1] = "tuple_pat"
                THEN g.round_trip[2][2][i][1][3] ELSE <<>> ]
       ELSE <<>> >>

C15_WitnessEnum ==
    /\ mode = "derive" /\ pc = "generated"
    /\ Len(calls) = 3
    /\ calls[1].ast = calls[3].ast
    /\ calls[2].ast.generics # NoGenerics
    /\ Numbered(calls[3].gen)[3] = << <<"x0", "x1">>, <<"x0">> >>

====
